---- MODULE Spec2Model ----
(***************************************************************************)
(* Paper-trading execution and portfolio-state engine of cryptostalker     *)
(* (src/src/paper_trading.py, src/src/paper_trading_cli.py).               *)
(*                                                                         *)
(* Numbers.  Quantities, balances and trade values are Python floats in    *)
(* the source.  The model keeps them as exact integers counted in units of *)
(* 10^-5 (QtyScale units per whole unit), the default tradable precision   *)
(* of round_quantity; prices are whole numbers of the base currency.  A    *)
(* quantity q (in units) at price p therefore costs q * p units exactly.   *)
(* NaN and infinity are not modelled for balances; the indicator columns   *)
(* of generate_signals do carry NaN.                                       *)
(*                                                                         *)
(* Absent dictionary keys.  self.config and the JSON files are records;    *)
(* a key the source reads with .get(key, default) is read with Get.  The   *)
(* in-memory configuration keeps every field, an absent key being held as  *)
(* the default every reader of that key uses.                              *)
(***************************************************************************)
EXTENDS Integers, Sequences, FiniteSets, TLC

\* ---------------------------------------------------------------- bounds
\* number of timestamps (trades, equity samples, resets) one behaviour issues
MaxClock == 3
\* number of processes constructed on the same config path in one behaviour
MaxStarts == 2
\* number of steps of TickSeconds the wall clock is followed for
MaxTicks == 3
\* number of trading_loop threads created in one behaviour
MaxThreads == 2
\* number of timestamps a behaviour with a trading loop issues
MaxLoopClock == 4
\* number of timestamps a behaviour of whole trading cycles issues
MaxCycleClock == 7

\* ------------------------------------------------------ program constants
\* 10**5: default precision of round_quantity
QtyScale == 100000
\* np.floor(quantity * 10**5) / 10**5
DefaultPrecision == 5
\* equity_history keeps the last 10000 points
EquityCap == 10000
\* initial_balance default of __init__ / load_config, in whole units
DefaultInitialBalance == 10000
\* risk_percentage default
DefaultRisk == 2
\* price used by execute-trade when neither --price nor a last price exists
MockDefaultPrice == 100
\* rsi_overbought / rsi_oversold defaults of strategy_params
RsiOverbought == 70
RsiOversold == 30
\* min_confidence_threshold default 0.75, in hundredths
DefaultMinConfidence == 75
\* suggested_trade_refresh_interval default, in seconds
DefaultRefreshInterval == 60

\* the step of the wall clock: half the default refresh interval
TickSeconds == DefaultRefreshInterval \div 2

\* time.time() when the process starts: seconds since the epoch, far above any
\* refresh interval
StartTime == 10 * DefaultRefreshInterval

\* ------------------------------------------------------------ input sets
Symbols == {"XRPUSDT", "LTCUSDT"}
\* self.symbols as configured (the symbols reset_account creates entries for)
ConfigSymbols == {"XRPUSDT"}
Signals == {1, -1, 0}
Prices == {-100, 0, 3, 100}
\* decimals derived from an exchange LOT_SIZE step, or the default
Precisions == {DefaultPrecision, 3}
RiskValues == {2, 100, 150}
\* initial_balance values a config file carries, in units of 10^-5
ConfigBalances == {1 * QtyScale}
\* get_symbol_ticker: it raises, or answers a price
TickerOutcomes == {[kind |-> "raise"]} \cup {[price |-> p] : p \in {100}}
\* --price and --quantity of execute-trade: omitted, or a value
CliPriceArgs == {[kind |-> "None"]} \cup {[v |-> p] : p \in {0}}
CliQuantityArgs == {[kind |-> "None"]} \cup {[v |-> q] : q \in {500}}
\* the entries fetch_suggested_trades returns: BUY or SELL, a confidence in
\* hundredths, currentPrice or 0
Suggestions ==
  [symbol : ConfigSymbols, signal : {"BUY", "SELL"}, confidence : {60, 75},
   price : {0, 100}]
\* the fetched list: empty (no file, or the read raised), one entry, or a
\* priced BUY of confidence 0.60 followed by an entry of confidence 0.75
Feeds ==
  {<<>>} \cup {<<t>> : t \in Suggestions}
  \cup {<<t1, t2>> :
          t1 \in {t \in Suggestions :
                    t.confidence = 60 /\ t.signal = "BUY" /\ t.price > 0},
          t2 \in {t \in Suggestions : t.confidence = 75}}
\* the config_file argument: the constructor's default, a bare file name, or
\* a path with a directory
ConfigFiles == {"trading_config.json", "data/trading_config.json"}
\* how the file system answers one save_state: everything works, os.makedirs
\* raises, open(state_file, 'w') raises, or json.dump raises after the file
\* was opened and truncated
IoOutcomes == {"ok", "makedirs_raises", "open_raises", "dump_raises"}
\* interval_seconds of start()
StartIntervals == {DefaultRefreshInterval, TickSeconds}
\* new_mode of switch_mode()
NewModes == {"paper", "live", "margin"}
\* what fetch_market_data gives one cycle: an empty frame, or a one-row frame
\* (oversold RSI) with its last close
Markets ==
  {[kind |-> "empty"]} \cup
  {[frame |-> <<[SMA_short |-> 0 - 1, SMA_long |-> 0 - 1, RSI |-> r]>>,
    close |-> 100] : r \in {20}}
\* self.symbols x self.intervals in the order of the for loops: the
\* configured symbol with two intervals
CyclePairs ==
  <<[symbol |-> CHOOSE s \in ConfigSymbols : TRUE, interval |-> "1h"],
    [symbol |-> CHOOSE s \in ConfigSymbols : TRUE, interval |-> "4h"]>>
\* what fetch_market_data gives one pair: an empty frame, or a one-row frame
\* with an oversold or an overbought RSI and its last close, which may be 0
CycleMarkets ==
  {[kind |-> "empty"]} \cup
  {[frame |-> <<[SMA_short |-> 0 - 1, SMA_long |-> 0 - 1, RSI |-> r]>>,
    close |-> c] : r \in {20, 80}, c \in {0, 100}}
\* how the file system answers while the loop runs
LoopIo == {"ok", "makedirs_raises"}
\* what client.get_account() answers: the free base-currency and asset balances
AccountOutcomes ==
  {[kind |-> "raise"], [base |-> 0, asset |-> 0],
   [base |-> 1 * QtyScale, asset |-> 500]}
\* what client.create_order() answers
OrderOutcomes == {[kind |-> "raise"], [orderId |-> 7]}
Exchanges == [account : AccountOutcomes, order : OrderOutcomes]

\* values that stand beside records: a missing file, a file json.load rejects,
\* Python's None, a raised exception
NoFile == [kind |-> "NoFile"]
Bad == [kind |-> "Bad"]
None == [kind |-> "None"]
Raised == [kind |-> "raise"]

\* ------------------------------------------------------------- helpers
\* dict.get(key, default)
Get(d, k, default) == IF k \in DOMAIN d THEN d[k] ELSE default

\* d[k] = v
Put(d, k, v) == [x \in (DOMAIN d) \cup {k} |-> IF x = k THEN v ELSE d[x]]

\* del d[k]
Del(d, k) == [x \in (DOMAIN d) \ {k} |-> d[x]]

EmptyDict == [x \in {} |-> 0]

Pow10(n) == IF n = 0 THEN 1 ELSE IF n = 1 THEN 10 ELSE IF n = 2 THEN 100
            ELSE IF n = 3 THEN 1000 ELSE IF n = 4 THEN 10000 ELSE 100000

\* floor(n * num / den) without forming n * num (den # 0)
FloorMulDiv(n, num, den) ==
  LET d == IF den > 0 THEN den ELSE 0 - den
      m == IF den > 0 THEN n ELSE 0 - n
  IN (m \div d) * num + ((m % d) * num) \div d

Truthy(s) == s # ""

\* ---------------------------------------------------------------- state
VARIABLES
  pc,               \* position of the process: constructor step, "ready"
  config,           \* self.config
  mode,             \* self.mode
  initial_balance,  \* self.initial_balance
  risk_percentage,  \* self.risk_percentage
  balance,          \* self.balance
  holdings,         \* self.holdings
  open_orders,      \* self.open_orders
  equity_history,   \* self.equity_history
  trade_history,    \* self.trade_history
  last_prices,      \* self.last_prices
  is_running,       \* self.is_running
  last_api_key,     \* self._last_api_key
  last_api_secret,  \* self._last_api_secret
  client,           \* self.client: the pair it was built from, or None
  configFile,       \* the file at self.config_file
  configBak,        \* <config_file>.bak
  stateFile,        \* <config dir>/paper_trading_state.json
  backupFile,       \* <config dir>/api_keys_backup.json
  cwdStateFile,     \* ./paper_trading_state.json when cwd is another directory
  altFiles,         \* the three alternate api_keys.json locations
  cwdIsConfigDir,   \* the working directory is the config directory
  clock,            \* number of timestamps issued so far
  starts,           \* number of processes constructed so far
  call,             \* the last operation and its arguments
  result,           \* what the last operation returned
  found,            \* the state file as the process found it when it started
  startup,          \* the config file and the backup file it found then
  df,               \* indicator frame handed to generate_signals
  now,              \* time.time(), in seconds
  min_confidence_threshold,          \* self.min_confidence_threshold, in hundredths
  auto_execute_suggested_trades,     \* self.auto_execute_suggested_trades
  last_suggested_trade_check,        \* self.last_suggested_trade_check
  fetches,                           \* the calls of fetch_suggested_trades made so far
  suggested_trade_refresh_interval,  \* self.suggested_trade_refresh_interval
  forwarded,        \* the paper_trade / live_trade calls of the last feed check
  thread,           \* self.thread: index in threads of the last one made, 0 for None
  threads,          \* position of every trading_loop thread created so far
  resultsFile,      \* the last trading_results_<timestamp>.json written
  config_file       \* self.config_file: the path given to the constructor

vars == <<pc, config, mode, initial_balance, risk_percentage, balance,
          holdings, open_orders, equity_history, trade_history, last_prices,
          is_running, last_api_key, last_api_secret, client, configFile,
          configBak, stateFile, backupFile, cwdStateFile, altFiles,
          cwdIsConfigDir, clock, starts, call, result, found, startup, df,
          now, min_confidence_threshold,
          auto_execute_suggested_trades, last_suggested_trade_check, fetches,
          suggested_trade_refresh_interval, forwarded, thread, threads,
          resultsFile, config_file>>

\* the config path, the attributes of the suggested-trade feed, the background threads and the
\* results file
ext == <<now, min_confidence_threshold,
                 auto_execute_suggested_trades, last_suggested_trade_check, fetches,
         suggested_trade_refresh_interval, forwarded, thread, threads,
         resultsFile, config_file>>

\* the variables Cur collects
curVars == <<config, mode, initial_balance, risk_percentage, balance, holdings,
             open_orders, equity_history, trade_history, last_prices,
             is_running, last_api_key, last_api_secret, client, configFile,
             configBak, stateFile, backupFile, cwdStateFile, altFiles,
             cwdIsConfigDir, clock>>

\* the program state and the files as one record, so that a method that calls
\* other methods is the composition of their effects
Cur ==
  [config |-> config, mode |-> mode, initial_balance |-> initial_balance,
   risk_percentage |-> risk_percentage, balance |-> balance,
   holdings |-> holdings, open_orders |-> open_orders,
   equity_history |-> equity_history, trade_history |-> trade_history,
   last_prices |-> last_prices, is_running |-> is_running,
   last_api_key |-> last_api_key, last_api_secret |-> last_api_secret,
   client |-> client, configFile |-> configFile, configBak |-> configBak,
   stateFile |-> stateFile, backupFile |-> backupFile,
   cwdStateFile |-> cwdStateFile, altFiles |-> altFiles,
   cwdIsConfigDir |-> cwdIsConfigDir, clock |-> clock]

Set(w) ==
  /\ config' = w.config
  /\ mode' = w.mode
  /\ initial_balance' = w.initial_balance
  /\ risk_percentage' = w.risk_percentage
  /\ balance' = w.balance
  /\ holdings' = w.holdings
  /\ open_orders' = w.open_orders
  /\ equity_history' = w.equity_history
  /\ trade_history' = w.trade_history
  /\ last_prices' = w.last_prices
  /\ is_running' = w.is_running
  /\ last_api_key' = w.last_api_key
  /\ last_api_secret' = w.last_api_secret
  /\ client' = w.client
  /\ configFile' = w.configFile
  /\ configBak' = w.configBak
  /\ stateFile' = w.stateFile
  /\ backupFile' = w.backupFile
  /\ cwdStateFile' = w.cwdStateFile
  /\ altFiles' = w.altFiles
  /\ cwdIsConfigDir' = w.cwdIsConfigDir
  /\ clock' = w.clock

\* the feed attributes as __init__ sets them, no thread, no results file
ExtInit ==
  /\ now = StartTime
  /\ min_confidence_threshold = DefaultMinConfidence
  /\ auto_execute_suggested_trades = FALSE
  /\ last_suggested_trade_check = 0
  /\ fetches = <<>>
  /\ suggested_trade_refresh_interval = DefaultRefreshInterval
  /\ forwarded = <<>>
  /\ thread = 0
  /\ threads = <<>>
  /\ resultsFile = NoFile
  /\ config_file = "data/trading_config.json"

\* self.config = {} : every key absent
EmptyConfig ==
  [api_key |-> "", api_secret |-> "", mode |-> "paper",
   initial_balance |-> DefaultInitialBalance * QtyScale,
   risk_percentage |-> DefaultRisk]

\* ------------------------------------------------------------ persistence
\* variant: the snapshot without last_prices
Snapshot_NoLastPrices(w) ==
  [balance |-> w.balance,
   holdings |-> w.holdings,
   open_orders |-> w.open_orders,
   equity_history |-> w.equity_history,
   trade_history |-> w.trade_history,
   api_keys |-> [key |-> w.config.api_key, secret |-> w.config.api_secret],
   mode |-> w.mode,
   is_running |-> w.is_running]

\* the dict save_state serialises (last_updated is never read back)
Snapshot(w) ==
  [balance |-> w.balance,
   holdings |-> w.holdings,
   open_orders |-> w.open_orders,
   equity_history |-> w.equity_history,
   trade_history |-> w.trade_history,
   last_prices |-> w.last_prices,
   api_keys |-> [key |-> w.config.api_key, secret |-> w.config.api_secret],
   mode |-> w.mode,
   is_running |-> w.is_running]

\* save_state with a config path that has a directory and a writable disk
save_state(w) == [w EXCEPT !.stateFile = Snapshot(w)]

\* os.path.dirname(self.config_file)
Dirname(path) == IF path = "trading_config.json" THEN "" ELSE "data"

\* save_state under any path and any answer of the file system.
\* os.makedirs(state_dir, exist_ok=True) runs before the try block:
\* os.makedirs('') raises FileNotFoundError, and so does a directory that
\* cannot be created.  Failures of open and json.dump are caught and logged.
save_state_under(w, state_dir, io) ==
  IF state_dir = "" \/ io = "makedirs_raises"
  THEN [w |-> w, ret |-> Raised]
  ELSE IF io = "open_raises"
  THEN [w |-> w, ret |-> None]
  ELSE IF io = "dump_raises"
  THEN [w |-> [w EXCEPT !.stateFile = Bad], ret |-> None]
  ELSE [w |-> save_state(w), ret |-> None]

\* update_client: rebuild the client when the pair changed and is complete
update_client(w) ==
  LET current_api_key == w.config.api_key
      current_api_secret == w.config.api_secret
  IN IF /\ \/ w.client = None
              \/ current_api_key # w.last_api_key
              \/ current_api_secret # w.last_api_secret
        /\ Truthy(current_api_key) /\ Truthy(current_api_secret)
     THEN [w EXCEPT !.client = [key |-> current_api_key,
                                secret |-> current_api_secret],
                    !.last_api_key = current_api_key,
                    !.last_api_secret = current_api_secret]
     ELSE w

\* variant: the backup is written whatever the pair holds
backup_api_keys_Always(w) ==
  [save_state(w) EXCEPT !.backupFile = [api_key |-> w.config.api_key,
                                        api_secret |-> w.config.api_secret]]

\* backup_api_keys: state file and dedicated backup, only for a complete pair
backup_api_keys(w) ==
  IF ~Truthy(w.config.api_key) \/ ~Truthy(w.config.api_secret)
  THEN w
  ELSE LET w1 == save_state(w)
       IN [w1 EXCEPT !.backupFile = [api_key |-> w.config.api_key,
                                     api_secret |-> w.config.api_secret]]

\* save_config: .bak copy of an existing file, write, update_client, backup
save_config(w) ==
  LET w1 == IF w.configFile # NoFile
            THEN [w EXCEPT !.configBak = w.configFile] ELSE w
      w2 == [w1 EXCEPT !.configFile = w.config]
  IN backup_api_keys(update_client(w2))

\* variant: reset_account also empties the ledger
reset_account_ClearsHistory(w) ==
  save_state([w EXCEPT
    !.balance = w.initial_balance,
    !.holdings = [s \in ConfigSymbols |-> 0],
    !.open_orders = <<>>,
    !.equity_history = <<[timestamp |-> w.clock + 1, equity |-> w.initial_balance]>>,
    !.trade_history = <<>>,
    !.last_prices = EmptyDict,
    !.clock = w.clock + 1])

\* reset_account
reset_account(w) ==
  save_state([w EXCEPT
    !.balance = w.initial_balance,
    !.holdings = [s \in ConfigSymbols |-> 0],
    !.open_orders = <<>>,
    !.equity_history = <<[timestamp |-> w.clock + 1, equity |-> w.initial_balance]>>,
    !.last_prices = EmptyDict,
    !.clock = w.clock + 1])

\* load_state
load_state(w) ==
  IF w.stateFile = NoFile \/ w.stateFile = Bad
  THEN w
  ELSE LET state == w.stateFile
           w1 == [w EXCEPT
                   !.balance = Get(state, "balance", w.initial_balance),
                   !.holdings = Get(state, "holdings", [s \in ConfigSymbols |-> 0]),
                   !.open_orders = Get(state, "open_orders", <<>>),
                   !.equity_history = Get(state, "equity_history", <<>>),
                   !.trade_history = Get(state, "trade_history", <<>>),
                   !.last_prices = Get(state, "last_prices", EmptyDict)]
           api_keys == Get(state, "api_keys", EmptyDict)
           w2 == IF /\ Truthy(Get(api_keys, "key", ""))
                    /\ Truthy(Get(api_keys, "secret", ""))
                    /\ (~Truthy(w1.config.api_key) \/ ~Truthy(w1.config.api_secret))
                 THEN save_config([w1 EXCEPT !.config.api_key = api_keys.key,
                                             !.config.api_secret = api_keys.secret])
                 ELSE w1
       IN IF "mode" \in DOMAIN state THEN [w2 EXCEPT !.mode = state.mode] ELSE w2

\* ------------------------------------------------------------- execution
\* variant: rounds up instead of down
round_quantity_Ceil(n, num, den, precision) ==
  (0 - FloorMulDiv(0 - n, num, den * Pow10(DefaultPrecision - precision)))
    * Pow10(DefaultPrecision - precision)

\* round_quantity applied to the quantity n * num / den (in units of 10^-5):
\* np.floor(quantity * 10**precision) / 10**precision
round_quantity(n, num, den, precision) ==
  FloorMulDiv(n, num, den * Pow10(DefaultPrecision - precision))
    * Pow10(DefaultPrecision - precision)

\* risk_amount = balance * (risk_percentage / 100);
\* quantity = round_quantity(risk_amount / current_price)
SizedQuantity(bal, risk, current_price, precision) ==
  round_quantity(bal, risk, 100 * current_price, precision)

\* variant: the value of the whole units only
SellValue_WholeUnits(current_holdings, current_price) ==
  (current_holdings \div QtyScale) * QtyScale * current_price

\* variant: a fee of one thousandth is taken from the proceeds
SellValue_Fee(current_holdings, current_price) ==
  current_holdings * current_price - (current_holdings * current_price) \div 1000

\* value = current_holdings * current_price
SellValue(current_holdings, current_price) == current_holdings * current_price

\* variants of the rejection test of the BUY branch
QuantityTooSmall_ZeroOnly(quantity) == quantity = 0
QuantityTooSmall_Strict(quantity) == quantity < 0

\* if quantity <= 0: the BUY is rejected
QuantityTooSmall(quantity) == quantity <= 0

\* if current_holdings <= 0: the SELL is rejected
NoHoldings(current_holdings) == current_holdings <= 0

\* the BUY branch of paper_trade, past the balance and price checks
paper_buy(w, symbol, current_price, precision) ==
  LET quantity == SizedQuantity(w.balance, w.risk_percentage, current_price, precision)
      cost == quantity * current_price
      balance_after == w.balance - cost
      holdings_after == Get(w.holdings, symbol, 0) + quantity
      trade == [timestamp |-> w.clock + 1, symbol |-> symbol, side |-> "BUY",
                quantity |-> quantity, price |-> current_price, value |-> cost,
                balance_after |-> balance_after,
                holdings_after |-> holdings_after,
                type |-> IF w.mode = "paper" THEN "paper" ELSE "live"]
  IN IF QuantityTooSmall(quantity)
     THEN [w |-> w, ret |-> None]
     ELSE [w |-> [w EXCEPT !.balance = balance_after,
                           !.holdings = Put(w.holdings, symbol, holdings_after),
                           !.trade_history = Append(w.trade_history, trade),
                           !.clock = w.clock + 1],
           ret |-> trade]

\* the SELL branch of paper_trade
paper_sell(w, symbol, current_price) ==
  LET current_holdings == Get(w.holdings, symbol, 0)
      value == SellValue(current_holdings, current_price)
      balance_after == w.balance + value
      trade == [timestamp |-> w.clock + 1, symbol |-> symbol, side |-> "SELL",
                quantity |-> current_holdings, price |-> current_price,
                value |-> value, balance_after |-> balance_after,
                holdings_after |-> 0,
                type |-> IF w.mode = "paper" THEN "paper" ELSE "live"]
  IN IF NoHoldings(current_holdings)
     THEN [w |-> w, ret |-> None]
     ELSE [w |-> [w EXCEPT !.balance = balance_after,
                           !.holdings = Put(w.holdings, symbol, 0),
                           !.trade_history = Append(w.trade_history, trade),
                           !.clock = w.clock + 1],
           ret |-> trade]

\* paper_trade(symbol, signal, current_price); precision is what round_quantity
\* derives from the exchange's answer.  A zero price makes the division of the
\* BUY branch raise ZeroDivisionError before anything is assigned.
paper_trade(w, symbol, signal, current_price, precision) ==
  IF signal = 0 THEN [w |-> w, ret |-> None]
  ELSE IF signal > 0
       THEN IF w.balance <= 0 THEN [w |-> w, ret |-> None]
            ELSE IF current_price = 0 THEN [w |-> w, ret |-> Raised]
            ELSE paper_buy(w, symbol, current_price, precision)
       ELSE paper_sell(w, symbol, current_price)

\* variant: the trade is recorded before the order is placed
live_order_RecordFirst(w, trade, order) ==
  [w |-> [w EXCEPT !.trade_history = Append(w.trade_history, trade),
                   !.clock = w.clock + 1],
   ret |-> IF order = Raised THEN None ELSE trade]

\* client.create_order(...) and, when it returns, the recording of the trade;
\* trade is the record without the order id
live_order(w, trade, order) ==
  IF order = Raised
  THEN [w |-> w, ret |-> None]
  ELSE LET placed == [x \in (DOMAIN trade) \cup {"order_id"} |->
                        IF x = "order_id" THEN order.orderId ELSE trade[x]]
       IN [w |-> [w EXCEPT !.trade_history = Append(w.trade_history, placed),
                           !.clock = w.clock + 1],
           ret |-> placed]

\* the BUY branch of live_trade; account is what client.get_account() gave
live_buy(w, symbol, current_price, precision, account, order) ==
  IF account = Raised \/ account.base <= 0 \/ current_price = 0
  THEN [w |-> w, ret |-> None]
  ELSE LET quantity == SizedQuantity(account.base, w.risk_percentage,
                                     current_price, precision)
           trade == [timestamp |-> w.clock + 1, symbol |-> symbol,
                     side |-> "BUY", quantity |-> quantity,
                     price |-> current_price,
                     value |-> quantity * current_price, type |-> "live"]
       IN IF quantity <= 0 THEN [w |-> w, ret |-> None]
          ELSE live_order(w, trade, order)

\* the SELL branch of live_trade
live_sell(w, symbol, current_price, account, order) ==
  IF account = Raised \/ account.asset <= 0
  THEN [w |-> w, ret |-> None]
  ELSE LET trade == [timestamp |-> w.clock + 1, symbol |-> symbol,
                     side |-> "SELL", quantity |-> account.asset,
                     price |-> current_price,
                     value |-> SellValue(account.asset, current_price),
                     type |-> "live"]
       IN live_order(w, trade, order)

\* live_trade(symbol, signal, current_price); exch holds what get_account and
\* create_order answer: a raised exception or a value.  Every exception,
\* the ZeroDivisionError of a zero price included, is caught and None returned.
live_trade(w, symbol, signal, current_price, precision, exch) ==
  IF signal = 0 \/ w.mode # "live" THEN [w |-> w, ret |-> None]
  ELSE IF signal > 0
       THEN live_buy(w, symbol, current_price, precision, exch.account, exch.order)
       ELSE live_sell(w, symbol, current_price, exch.account, exch.order)

\* the body of the CLI command execute-trade on a constructed strategy
\* (args.confidence is copied into the trade and is left out here; the symbols
\* of the model are not in mock_prices, so the mock price is the default one).
\* Default quantities are 5% of the balance over the price and half of the
\* holdings, rounded down to the model's unit.
cli_execute_trade(w, symbol, side, price_arg, quantity_arg) ==
  LET price == IF price_arg # None THEN price_arg.v
               ELSE IF symbol \in DOMAIN w.last_prices THEN w.last_prices[symbol]
               ELSE MockDefaultPrice
      no_default == /\ quantity_arg = None
                    /\ \/ side = "BUY" /\ price = 0
                       \/ side = "SELL" /\ symbol \notin DOMAIN w.holdings
      quantity == IF quantity_arg # None THEN quantity_arg.v
                  ELSE IF side = "BUY" THEN FloorMulDiv(w.balance, 5, 100 * price)
                  ELSE FloorMulDiv(w.holdings[symbol], 1, 2)
      cost == price * quantity
      trade == [symbol |-> symbol, side |-> side, price |-> price,
                quantity |-> quantity, timestamp |-> w.clock + 1]
      recorded(w1) == save_state([w1 EXCEPT
                        !.trade_history = Append(w.trade_history, trade),
                        !.last_prices = Put(w.last_prices, symbol, price),
                        !.clock = w.clock + 1])
  IN IF no_default THEN w
     ELSE IF price <= 0 \/ quantity <= 0 THEN w
     ELSE IF side = "BUY"
          THEN IF cost > w.balance THEN w
               ELSE recorded([w EXCEPT
                      !.balance = w.balance - cost,
                      !.holdings = Put(w.holdings, symbol,
                                       Get(w.holdings, symbol, 0) + quantity)])
          ELSE IF symbol \notin DOMAIN w.holdings \/ w.holdings[symbol] < quantity
               THEN w
               ELSE recorded([w EXCEPT
                      !.balance = w.balance + cost,
                      !.holdings = IF w.holdings[symbol] - quantity <= 0
                                   THEN Del(w.holdings, symbol)
                                   ELSE Put(w.holdings, symbol,
                                            w.holdings[symbol] - quantity)])

\* ---------------------------------------------------------------- equity
\* the price calculate_portfolio_value uses for one held symbol: the last
\* price when it is truthy, else the ticker's answer, else none
ValuationPrice(w, symbol, ticker) ==
  IF symbol \in DOMAIN w.last_prices /\ w.last_prices[symbol] # 0
  THEN [price |-> w.last_prices[symbol]]
  ELSE ticker[symbol]

RECURSIVE HoldingsValue(_, _, _)
HoldingsValue(w, ticker, syms) ==
  IF syms = {} THEN 0
  ELSE LET s == CHOOSE x \in syms : TRUE
           p == ValuationPrice(w, s, ticker)
       IN (IF w.holdings[s] > 0 /\ p # Raised THEN w.holdings[s] * p.price ELSE 0)
          + HoldingsValue(w, ticker, syms \ {s})

\* calculate_portfolio_value: the total, and last_prices with the fetched prices
calculate_portfolio_value(w, ticker) ==
  [total |-> w.balance + HoldingsValue(w, ticker, DOMAIN w.holdings),
   last_prices |->
     [s \in (DOMAIN w.last_prices) \cup
            {x \in DOMAIN w.holdings :
               /\ w.holdings[x] > 0
               /\ ~(x \in DOMAIN w.last_prices /\ w.last_prices[x] # 0)
               /\ ticker[x] # Raised}
        |-> IF s \in DOMAIN w.last_prices /\ w.last_prices[s] # 0
            THEN w.last_prices[s]
            ELSE IF s \in DOMAIN w.holdings /\ w.holdings[s] > 0 /\ ticker[s] # Raised
                 THEN ticker[s].price ELSE w.last_prices[s]]]

\* variant: keeps the first 10000 entries, [:10000]
ClipEquity_KeepOldest(h) ==
  IF Len(h) > EquityCap THEN SubSeq(h, 1, EquityCap) ELSE h

\* self.equity_history[-10000:] when the list is longer than 10000
ClipEquity(h) ==
  IF Len(h) > EquityCap THEN SubSeq(h, Len(h) - EquityCap + 1, Len(h)) ELSE h

\* update_equity_history
update_equity_history(w, ticker) ==
  LET v == calculate_portfolio_value(w, ticker)
  IN [w EXCEPT
       !.last_prices = v.last_prices,
       !.equity_history = ClipEquity(Append(w.equity_history,
                             [timestamp |-> w.clock + 1, equity |-> v.total])),
       !.clock = w.clock + 1]

\* ------------------------------------------------------ credential recovery
\* variant: the state file is consulted before the dedicated backup
RecoverySources_StateFirst == <<"state_file", "backup_file", "alt1", "alt2", "alt3">>

\* the order in which recover_api_keys_if_needed consults its sources
RecoverySources == <<"backup_file", "state_file", "alt1", "alt2", "alt3">>

\* the file behind a source name
SourceFile(w, src) ==
  IF src = "backup_file" THEN w.backupFile
  ELSE IF src = "state_file"
       THEN (IF w.cwdIsConfigDir THEN w.stateFile ELSE w.cwdStateFile)
  ELSE IF src = "alt1" THEN w.altFiles[1]
  ELSE IF src = "alt2" THEN w.altFiles[2]
  ELSE w.altFiles[3]

\* the pair a readable source file holds
SourceKeys(f, src) ==
  IF src = "state_file"
  THEN LET api_keys == Get(f, "api_keys", EmptyDict)
       IN [key |-> Get(api_keys, "key", ""), secret |-> Get(api_keys, "secret", "")]
  ELSE [key |-> Get(f, "api_key", ""), secret |-> Get(f, "api_secret", "")]

RECURSIVE recover_from(_, _, _)
recover_from(w, i, reads) ==
  IF i > Len(RecoverySources)
  THEN [w |-> w, ret |-> FALSE, reads |-> reads]
  ELSE LET src == RecoverySources[i]
           f == SourceFile(w, src)
       IN IF f = NoFile THEN recover_from(w, i + 1, reads)
          ELSE IF f = Bad THEN recover_from(w, i + 1, Append(reads, src))
          ELSE LET k == SourceKeys(f, src)
               IN IF Truthy(k.key) /\ Truthy(k.secret)
                  THEN [w |-> save_config([w EXCEPT !.config.api_key = k.key,
                                                    !.config.api_secret = k.secret]),
                        ret |-> TRUE, reads |-> Append(reads, src)]
                  ELSE recover_from(w, i + 1, Append(reads, src))

\* recover_api_keys_if_needed
recover_api_keys_if_needed(w) ==
  IF Truthy(w.config.api_key) /\ Truthy(w.config.api_secret)
  THEN [w |-> w, ret |-> TRUE, reads |-> <<>>]
  ELSE recover_from(w, 1, <<>>)

\* ------------------------------------------------------- suggested trades
\* variant: a suggestion is skipped only when its confidence is under half of
\* the threshold
BelowThreshold_Half(confidence, threshold) == 2 * confidence < threshold

\* if confidence < self.min_confidence_threshold: the suggestion is skipped
BelowThreshold(confidence, threshold) == confidence < threshold

\* the price a suggestion is executed at, as [v |-> price]: its own when
\* positive, else the ticker's; None when get_symbol_ticker raises
SuggestedPrice(trade, ticker) ==
  IF trade.price > 0 THEN [v |-> trade.price]
  ELSE IF ticker = Raised THEN None
  ELSE [v |-> ticker.price]

RECURSIVE execute_suggested(_, _, _, _, _, _)
\* the loop of check_and_execute_suggested_trades over the fetched list, from
\* entry i on; fwd collects the paper_trade / live_trade calls it makes
execute_suggested(w, threshold, suggested_trades, i, fwd, env) ==
  IF i > Len(suggested_trades) THEN [w |-> w, forwarded |-> fwd]
  ELSE
    LET trade == suggested_trades[i]
        signal == IF trade.signal = "BUY" THEN 1
                  ELSE IF trade.signal = "SELL" THEN 0 - 1 ELSE 0
        price == SuggestedPrice(trade, env.ticker)
        target == IF w.mode = "paper" THEN "paper_trade"
                  ELSE IF w.mode = "live" THEN "live_trade" ELSE "none"
        r == IF target = "paper_trade"
             THEN paper_trade(w, trade.symbol, signal, price.v, env.precision)
             ELSE IF target = "live_trade"
             THEN live_trade(w, trade.symbol, signal, price.v, env.precision, env.exch)
             ELSE [w |-> w, ret |-> None]
        sent == [target |-> target, symbol |-> trade.symbol, signal |-> signal,
                 price |-> price.v, is_suggested |-> TRUE,
                 confidence |-> trade.confidence]
    IN IF BelowThreshold(trade.confidence, threshold) \/ signal = 0 \/ price = None
       THEN execute_suggested(w, threshold, suggested_trades, i + 1, fwd, env)
       ELSE execute_suggested(r.w, threshold, suggested_trades, i + 1,
                              IF target = "none" THEN fwd ELSE Append(fwd, sent),
                              env)

\* ---------------------------------------------------------------- signals
\* a missing value of an indicator column (float NaN): every comparison with
\* it is false
NaN == 0 - 1
Lt(a, b) == a # NaN /\ b # NaN /\ a < b
Gt(a, b) == a # NaN /\ b # NaN /\ a > b
Le(a, b) == a # NaN /\ b # NaN /\ a <= b
Ge(a, b) == a # NaN /\ b # NaN /\ a >= b

\* the RSI rule of generate_signals
rsi_signal(latest) ==
  IF Lt(latest.RSI, RsiOversold) THEN 1
  ELSE IF Gt(latest.RSI, RsiOverbought) THEN 0 - 1
  ELSE 0

\* variant: with a single row the previous row is a row of zeros
PreviousRow_Zeros(frame) ==
  IF Len(frame) > 1 THEN frame[Len(frame) - 1]
  ELSE [SMA_short |-> 0, SMA_long |-> 0, RSI |-> 0]

\* the row generate_signals compares the latest row with
PreviousRow(frame) ==
  IF Len(frame) > 1 THEN frame[Len(frame) - 1] ELSE frame[Len(frame)]

\* the moving-average crossover rule of generate_signals
ma_signal(latest, previous) ==
  IF Gt(latest.SMA_short, latest.SMA_long) /\ Le(previous.SMA_short, previous.SMA_long)
  THEN 1
  ELSE IF Lt(latest.SMA_short, latest.SMA_long) /\ Ge(previous.SMA_short, previous.SMA_long)
       THEN 0 - 1
       ELSE 0

\* variant: the RSI rule is consulted first, the crossover only when it is 0
generate_signals_RsiFirst(frame) ==
  LET latest == frame[Len(frame)]
      previous == PreviousRow(frame)
  IN IF rsi_signal(latest) # 0
     THEN rsi_signal(latest)
     ELSE ma_signal(latest, previous)

\* generate_signals on a non-empty frame
generate_signals(frame) ==
  LET latest == frame[Len(frame)]
      previous == PreviousRow(frame)
  IN IF ma_signal(latest, previous) # 0
     THEN ma_signal(latest, previous)
     ELSE rsi_signal(latest)

\* ------------------------------------------------------------ trading loop
\* the part of run_trading_cycle inside the per-symbol try block, for the one
\* configured symbol and interval.  market is what fetch_market_data gave: an
\* empty frame (the request failed), or a frame with its last close, which
\* fetch_market_data has then stored in last_prices.
cycle_symbol(w, symbol, market, precision, exch) ==
  IF market = [kind |-> "empty"] THEN w
  ELSE LET w1 == [w EXCEPT !.last_prices = Put(w.last_prices, symbol, market.close)]
           signal == generate_signals(market.frame)
       IN IF w1.mode = "paper"
          THEN paper_trade(w1, symbol, signal, market.close, precision).w
          ELSE IF w1.mode = "live"
          THEN live_trade(w1, symbol, signal, market.close, precision, exch).w
          ELSE w1

\* run_trading_cycle: the symbols, then update_equity_history and save_state,
\* whose exception is the one that can leave the function
run_trading_cycle(w, market, precision, exch, ticker, state_dir, io) ==
  LET w1 == cycle_symbol(w, CHOOSE s \in ConfigSymbols : TRUE, market,
                         precision, exch)
      w2 == update_equity_history(w1, ticker)
  IN save_state_under(w2, state_dir, io)

\* the body of run_trading_cycle's two for loops for one (symbol, interval)
\* pair: the state after it, and whether it ended in `continue` on an empty
\* frame or in the except clause
cycle_pair(w, symbol, market, precision, exch) ==
  IF market = [kind |-> "empty"] THEN [w |-> w, failed |-> TRUE]
  ELSE LET w1 == [w EXCEPT !.last_prices = Put(w.last_prices, symbol, market.close)]
           signal == generate_signals(market.frame)
           r == IF w1.mode = "paper"
                THEN paper_trade(w1, symbol, signal, market.close, precision)
                ELSE IF w1.mode = "live"
                THEN live_trade(w1, symbol, signal, market.close, precision, exch)
                ELSE [w |-> w1, ret |-> None]
       IN [w |-> r.w, failed |-> r.ret = Raised]

\* variant: a pair that fails ends the two for loops
NextPair_Abort(i, n, failed) == IF failed THEN n + 1 ELSE i + 1

\* the for loops of run_trading_cycle go on with the next pair whether the
\* body ended normally, in `continue` or in the except clause
NextPair(i, n, failed) == i + 1

\* run_trading_cycle: the for loops from pair i on; markets[i] is what
\* fetch_market_data gives for pairs[i]
RECURSIVE cycle_pairs(_, _, _, _, _, _)
cycle_pairs(w, pairs, markets, i, precision, exch) ==
  IF i > Len(pairs) THEN w
  ELSE LET r == cycle_pair(w, pairs[i].symbol, markets[i], precision, exch)
       IN cycle_pairs(r.w, pairs, markets,
                      NextPair(i, Len(pairs), r.failed), precision, exch)

\* run_trading_cycle over the configured pairs: the for loops, then
\* update_equity_history and save_state
run_trading_cycle_over(w, pairs, markets, precision, exch, ticker, state_dir, io) ==
  LET w1 == cycle_pairs(w, pairs, markets, 1, precision, exch)
      w2 == update_equity_history(w1, ticker)
  IN save_state_under(w2, state_dir, io)

\* export_results(): the results file (config, performance and exported_at
\* are left out); its write is taken to succeed
export_results(w) ==
  [equity_history |-> w.equity_history, trade_history |-> w.trade_history,
   final_balance |-> w.balance, final_holdings |-> w.holdings]

\* save_config while the file system answers io: every failure is caught, and
\* then neither the file nor the client nor the backup is touched
save_config_under(w, io) == IF io = "ok" THEN save_config(w) ELSE w

\* switch_mode past the stop: the mode is assigned and stored in the config,
\* then save_config and save_state
switch_tail(w, new_mode, state_dir, io) ==
  LET w1 == [w EXCEPT !.mode = new_mode, !.config.mode = new_mode]
  IN save_state_under(save_config_under(w1, io), state_dir, io)

\* number of threads that have entered a cycle and not finished it
InCycle == Cardinality({t \in 1..Len(threads) : threads[t] = "cycle"})

\* ------------------------------------------------------------ construction
\* load_config
load_config(w) ==
  IF w.configFile = NoFile \/ w.configFile = Bad
  THEN [w EXCEPT !.mode = "paper",
                 !.initial_balance = DefaultInitialBalance * QtyScale,
                 !.risk_percentage = DefaultRisk]
  ELSE [w EXCEPT !.config = w.configFile,
                 !.mode = Get(w.configFile, "mode", "paper"),
                 !.initial_balance = Get(w.configFile, "initial_balance",
                                         DefaultInitialBalance * QtyScale),
                 !.risk_percentage = Get(w.configFile, "risk_percentage", DefaultRisk)]

\* the attributes __init__ assigns before it calls load_config; balance,
\* holdings, open_orders, equity_history and last_prices do not exist yet and
\* nothing reads them before reset_account assigns them
NewInstance(w) ==
  [w EXCEPT !.config = EmptyConfig, !.trade_history = <<>>, !.mode = "paper",
            !.initial_balance = DefaultInitialBalance * QtyScale,
            !.risk_percentage = DefaultRisk,
            !.balance = 0, !.holdings = EmptyDict, !.open_orders = <<>>,
            !.equity_history = <<>>, !.last_prices = EmptyDict,
            !.is_running = FALSE, !.last_api_key = "", !.last_api_secret = "",
            !.client = None]

\* __init__: self.load_config()
InitLoadConfig ==
  /\ pc = "load_config"
  /\ Set(load_config(Cur))
  /\ pc' = "reset_account"
  /\ call' = [op |-> "__init__.load_config"]
  /\ result' = None
  /\ UNCHANGED <<starts, found, startup, df, ext>>

\* __init__: self.reset_account(), then the runtime variables
InitResetAccount ==
  /\ pc = "reset_account"
  /\ LET w1 == reset_account(Cur)
         saved == save_state_under(Cur, Dirname(config_file), "ok")
     IN IF saved.ret = Raised
        THEN \* save_state raises out of reset_account and out of __init__:
             \* no instance is returned
             /\ Set([w1 EXCEPT !.stateFile = stateFile])
             /\ pc' = "raised"
             /\ result' = Raised
        ELSE /\ Set([w1 EXCEPT !.is_running = FALSE,
                               !.last_api_key = w1.config.api_key,
                               !.last_api_secret = w1.config.api_secret])
             /\ pc' = "load_state"
             /\ result' = None
  /\ call' = [op |-> "__init__.reset_account"]
  /\ UNCHANGED <<starts, found, startup, df, ext>>

\* __init__: self.load_state()
InitLoadState ==
  /\ pc = "load_state"
  /\ Set(load_state(Cur))
  /\ pc' = "recover"
  /\ call' = [op |-> "__init__.load_state"]
  /\ result' = None
  /\ UNCHANGED <<starts, found, startup, df, ext>>

\* __init__: self.recover_api_keys_if_needed(), then self.client = Client(...)
InitRecover ==
  /\ pc = "recover"
  /\ LET r == recover_api_keys_if_needed(Cur)
     IN /\ Set([r.w EXCEPT !.client = [key |-> r.w.config.api_key,
                                       secret |-> r.w.config.api_secret]])
        /\ result' = [ret |-> r.ret, reads |-> r.reads]
  /\ pc' = "ready"
  /\ call' = [op |-> "__init__.recover_api_keys_if_needed"]
  /\ UNCHANGED <<starts, found, startup, df, ext>>

\* the process ends and a new PaperTradingStrategy is constructed on the same
\* config path: the files stay, the instance is new
Restart ==
  /\ pc = "ready"
  /\ starts < MaxStarts
  /\ Set(NewInstance(Cur))
  /\ pc' = "load_config"
  /\ starts' = starts + 1
  /\ call' = [op |-> "__init__"]
  /\ result' = None
  /\ found' = stateFile
  /\ startup' = [configFile |-> configFile, backupFile |-> backupFile]
  /\ min_confidence_threshold' = DefaultMinConfidence
  /\ auto_execute_suggested_trades' = FALSE
  /\ last_suggested_trade_check' = 0
  /\ fetches' = <<>>
  /\ suggested_trade_refresh_interval' = DefaultRefreshInterval
  /\ forwarded' = <<>>
  /\ thread' = 0
  /\ threads' = <<>>
  /\ UNCHANGED <<df, now, resultsFile, config_file>>

\* ------------------------------------------------------------- operations
\* paper_trade(symbol, signal, current_price); round_quantity is reached by
\* BUY only
PaperTrade(symbol, signal, current_price, precision) ==
  /\ pc = "ready"
  /\ clock < MaxClock
  /\ LET r == paper_trade(Cur, symbol, signal, current_price, precision)
     IN Set(r.w) /\ result' = r.ret
  /\ call' = [op |-> "paper_trade", symbol |-> symbol, signal |-> signal,
              price |-> current_price, precision |-> precision]
  /\ UNCHANGED <<pc, starts, found, startup, df, ext>>

\* paper_trading_cli.py execute-trade
ExecuteTrade(symbol, side, price_arg, quantity_arg) ==
  /\ pc = "ready"
  /\ clock < MaxClock
  /\ Set(cli_execute_trade(Cur, symbol, side, price_arg, quantity_arg))
  /\ call' = [op |-> "execute_trade", symbol |-> symbol, side |-> side,
              price |-> price_arg, quantity |-> quantity_arg]
  /\ result' = None
  /\ UNCHANGED <<pc, starts, found, startup, df, ext>>

\* reset_account() on a constructed strategy
ResetAccount ==
  /\ pc = "ready"
  /\ clock < MaxClock
  /\ Set(reset_account(Cur))
  /\ call' = [op |-> "reset_account"]
  /\ result' = None
  /\ UNCHANGED <<pc, starts, found, startup, df, ext>>

\* save_state()
SaveState ==
  /\ pc = "ready"
  /\ Set(save_state(Cur))
  /\ call' = [op |-> "save_state"]
  /\ result' = None
  /\ UNCHANGED <<pc, starts, found, startup, df, ext>>

\* save_state() while the file system answers io
SaveStateUnder(io) ==
  /\ pc = "ready"
  /\ LET r == save_state_under(Cur, Dirname(config_file), io)
     IN Set(r.w) /\ result' = r.ret
  /\ call' = [op |-> "save_state", io |-> io]
  /\ UNCHANGED <<pc, starts, found, startup, df, ext>>

\* load_state() on a constructed strategy
LoadState ==
  /\ pc = "ready"
  /\ Set(load_state(Cur))
  /\ call' = [op |-> "load_state", after |-> call.op]
  /\ result' = None
  /\ UNCHANGED <<pc, starts, found, startup, df, ext>>

\* update_equity_history()
UpdateEquityHistory(ticker) ==
  /\ pc = "ready"
  /\ clock < MaxClock
  /\ Set(update_equity_history(Cur, ticker))
  /\ call' = [op |-> "update_equity_history"]
  /\ result' = None
  /\ UNCHANGED <<pc, starts, found, startup, df, ext>>

\* live_trade(symbol, signal, current_price)
LiveTrade(symbol, signal, current_price, precision, exch) ==
  /\ pc = "ready"
  /\ clock < MaxClock
  /\ LET r == live_trade(Cur, symbol, signal, current_price, precision, exch)
     IN /\ Set(r.w)
        /\ result' = r.ret
  /\ call' = [op |-> "live_trade", symbol |-> symbol, signal |-> signal,
              price |-> current_price, exch |-> exch]
  /\ UNCHANGED <<pc, starts, found, startup, df, ext>>

\* run_trading_cycle() called on the strategy, with two intervals configured
\* for its symbol
RunTradingCycle(markets, exch, ticker, io) ==
  /\ pc = "ready"
  /\ clock + Len(CyclePairs) + 1 <= MaxCycleClock
  /\ \E r \in {run_trading_cycle_over(Cur, CyclePairs, markets, DefaultPrecision,
                                       exch, ticker, Dirname(config_file), io)} :
       /\ Set(r.w)
       /\ result' = r.ret
  /\ call' = [op |-> "run_trading_cycle", markets |-> markets]
  /\ UNCHANGED <<pc, starts, found, startup, df, ext>>

\* a caller assigns config['api_key'] and config['api_secret'] of the
\* strategy, the way the CLI assigns config entries before it calls save_config
SetKeys(api_key, api_secret) ==
  /\ pc = "ready"
  /\ Set([Cur EXCEPT !.config.api_key = api_key,
                     !.config.api_secret = api_secret])
  /\ call' = [op |-> "config[api_key], config[api_secret] =",
              api_key |-> api_key, api_secret |-> api_secret]
  /\ result' = None
  /\ UNCHANGED <<pc, starts, found, startup, df, ext>>

\* save_config() while the file system answers io
SaveConfig(io) ==
  /\ pc = "ready"
  /\ Set(save_config_under(Cur, io))
  /\ call' = [op |-> "save_config", io |-> io]
  /\ result' = None
  /\ UNCHANGED <<pc, starts, found, startup, df, ext>>

\* the CLI command auto-execute --enabled E --confidence C --interval I: the
\* three attributes are assigned (the confidence clamped to [0, 1], the interval
\* to at least 1 second), then save_config() and save_state()
AutoExecute(enabled, confidence, interval) ==
  /\ pc = "ready"
  /\ auto_execute_suggested_trades' = enabled
  /\ min_confidence_threshold' =
       (IF confidence < 0 THEN 0 ELSE IF confidence > 100 THEN 100 ELSE confidence)
  /\ suggested_trade_refresh_interval' = (IF interval < 1 THEN 1 ELSE interval)
  /\ Set(save_state(save_config(Cur)))
  /\ call' = [op |-> "auto-execute", enabled |-> enabled]
  /\ result' = None
  /\ UNCHANGED <<pc, starts, found, startup, df, now, last_suggested_trade_check,
                 fetches, forwarded, thread, threads, resultsFile, config_file>>

\* variant: the feed is fetched on every call
TooSoon_Never(current_time, last_check, refresh_interval) == FALSE

\* check_and_execute_suggested_trades: the test that returns before the fetch
TooSoon(current_time, last_check, refresh_interval) ==
  current_time - last_check < refresh_interval

\* check_and_execute_suggested_trades(); suggested_trades is what
\* fetch_suggested_trades would return at this moment
CheckSuggested(suggested_trades, ticker, precision, exch) ==
  /\ pc = "ready"
  /\ clock + Len(suggested_trades) <= MaxClock
  /\ IF TooSoon(now, last_suggested_trade_check, suggested_trade_refresh_interval)
     THEN /\ result' = [fetched |-> FALSE]
          /\ UNCHANGED <<config, mode, initial_balance, risk_percentage,
                         balance, holdings, open_orders, equity_history,
                         trade_history, last_prices, is_running, last_api_key,
                         last_api_secret, client, configFile, configBak,
                         stateFile, backupFile, cwdStateFile, altFiles,
                         cwdIsConfigDir, clock, last_suggested_trade_check, fetches,
                         forwarded>>
     ELSE LET r == execute_suggested(Cur, min_confidence_threshold,
                                     suggested_trades, 1, <<>>,
                                     [ticker |-> ticker, precision |-> precision,
                                      exch |-> exch])
          IN /\ Set(r.w)
             /\ last_suggested_trade_check' = now
             /\ fetches' = Append(fetches, [at |-> now, interval |->
                                             suggested_trade_refresh_interval])
             /\ forwarded' = r.forwarded
             /\ result' = [fetched |-> TRUE]
  /\ call' = [op |-> "check_and_execute_suggested_trades",
              suggested_trades |-> suggested_trades, ticker |-> ticker]
  /\ UNCHANGED <<pc, starts, found, startup, df, now, min_confidence_threshold,
                 auto_execute_suggested_trades,
                 suggested_trade_refresh_interval, thread, threads, resultsFile,
                 config_file>>

\* TickSeconds seconds pass
Tick ==
  /\ now + TickSeconds <= StartTime + MaxTicks * TickSeconds
  /\ now' = now + TickSeconds
  /\ UNCHANGED <<pc, config, mode, initial_balance, risk_percentage, balance,
                 holdings, open_orders, equity_history, trade_history,
                 last_prices, is_running, last_api_key, last_api_secret, client,
                 configFile, configBak, stateFile, backupFile, cwdStateFile,
                 altFiles, cwdIsConfigDir, clock, starts, call, result, found, startup,
                 df, min_confidence_threshold,
                 auto_execute_suggested_trades, last_suggested_trade_check, fetches,
                 suggested_trade_refresh_interval, forwarded, thread, threads,
                 resultsFile, config_file>>

\* start(interval_seconds): nothing when already running, else the flag, the
\* refresh interval and a new daemon thread running trading_loop
Start(interval_seconds) ==
  /\ pc = "ready"
  /\ is_running \/ Len(threads) < MaxThreads
  /\ IF is_running
     THEN UNCHANGED <<curVars, suggested_trade_refresh_interval, thread, threads>>
     ELSE /\ Set([Cur EXCEPT !.is_running = TRUE])
          /\ suggested_trade_refresh_interval' = interval_seconds
          /\ threads' = Append(threads, "test")
          /\ thread' = Len(threads) + 1
  /\ call' = [op |-> "start", interval_seconds |-> interval_seconds,
              was_running |-> is_running]
  /\ result' = None
  /\ UNCHANGED <<pc, starts, found, startup, df, now, min_confidence_threshold,
                 auto_execute_suggested_trades,
                 last_suggested_trade_check, fetches, forwarded, resultsFile, config_file>>

\* stop() up to self.thread.join(timeout=10): nothing when already stopped,
\* else the flag is cleared and the caller waits in join
Stop ==
  /\ pc = "ready"
  /\ IF ~is_running
     THEN UNCHANGED <<curVars, pc>>
     ELSE /\ Set([Cur EXCEPT !.is_running = FALSE])
          /\ pc' = "stop_join"
  /\ call' = [op |-> "stop", was_running |-> is_running]
  /\ result' = None
  /\ UNCHANGED <<starts, found, startup, df, ext>>

\* stop() from the return of join (the thread ended, or the 10 seconds are
\* over) on: save_state(), then export_results()
StopJoined(io) ==
  /\ pc = "stop_join"
  /\ LET r == save_state_under(Cur, Dirname(config_file), io)
     IN /\ Set(r.w)
        /\ result' = r.ret
        /\ resultsFile' = IF r.ret = Raised THEN resultsFile
                          ELSE export_results(r.w)
  /\ pc' = "ready"
  /\ call' = [op |-> "stop.join", io |-> io, joined |-> threads[thread] = "done"]
  /\ UNCHANGED <<starts, found, startup, df, now, min_confidence_threshold,
                 auto_execute_suggested_trades,
                 last_suggested_trade_check, fetches, suggested_trade_refresh_interval,
                 forwarded, thread, threads, config_file>>

\* variant: live mode is refused only when both credentials are missing
MissingKeys_Both(w, new_mode) ==
  /\ new_mode = "live"
  /\ ~Truthy(w.config.api_key) /\ ~Truthy(w.config.api_secret)

\* switch_mode: the test for API keys before a switch to live mode
MissingKeys(w, new_mode) ==
  /\ new_mode = "live"
  /\ ~Truthy(w.config.api_key) \/ ~Truthy(w.config.api_secret)

\* switch_mode(new_mode) on a stopped strategy, and on a running one up to the
\* join inside its stop()
SwitchMode(new_mode, io) ==
  /\ pc = "ready"
  /\ ~is_running \/ Len(threads) < MaxThreads
  /\ IF new_mode \notin {"paper", "live"}
     THEN /\ UNCHANGED <<curVars, pc>>
          /\ result' = None
     ELSE IF MissingKeys(Cur, new_mode)
     THEN /\ UNCHANGED <<curVars, pc>>
          /\ result' = [ret |-> FALSE]
     ELSE IF is_running
     THEN /\ Set([Cur EXCEPT !.is_running = FALSE])
          /\ pc' = "switch_join"
          /\ result' = None
     ELSE LET r == switch_tail(Cur, new_mode, Dirname(config_file), io)
          IN /\ Set(r.w)
             /\ result' = IF r.ret = Raised THEN Raised ELSE [ret |-> TRUE]
             /\ pc' = pc
  /\ call' = [op |-> "switch_mode", new_mode |-> new_mode, io |-> io,
              was_running |-> is_running]
  /\ UNCHANGED <<starts, found, startup, df, ext>>

\* switch_mode on a running strategy from the return of the join on: the rest
\* of stop(), the mode change, the saves and start() with its default interval
SwitchJoined ==
  /\ pc = "switch_join"
  /\ LET stopped == save_state_under(Cur, Dirname(config_file), call.io)
         r == switch_tail(stopped.w, call.new_mode, Dirname(config_file), call.io)
     IN IF stopped.ret = Raised
        THEN /\ Set(Cur)
             /\ result' = Raised
             /\ UNCHANGED <<resultsFile, suggested_trade_refresh_interval,
                            thread, threads>>
        ELSE /\ Set([r.w EXCEPT !.is_running = TRUE])
             /\ result' = [ret |-> TRUE]
             /\ resultsFile' = export_results(stopped.w)
             /\ suggested_trade_refresh_interval' = DefaultRefreshInterval
             /\ threads' = Append(threads, "test")
             /\ thread' = Len(threads) + 1
  /\ pc' = "ready"
  /\ call' = [op |-> "switch_mode.join", new_mode |-> call.new_mode,
              io |-> call.io]
  /\ UNCHANGED <<starts, found, startup, df, now, min_confidence_threshold,
                 auto_execute_suggested_trades,
                 last_suggested_trade_check, fetches, forwarded, config_file>>

\* variant: the loop ends when a cycle raises
AfterCycle_Ends(ret) == IF ret = Raised THEN "done" ELSE "sleep"

\* trading_loop after run_trading_cycle: time.sleep(interval_seconds), or the
\* except clause with time.sleep(10)
AfterCycle(ret) == IF ret = Raised THEN "cooldown" ELSE "sleep"

\* variant: while True
AfterTest_Forever(running) == "cycle"

\* trading_loop: where `while self.is_running` leads, into the body or out of
\* the function
AfterTest(running) == IF running THEN "cycle" ELSE "done"

\* trading_loop: while self.is_running
LoopTest(t) ==
  /\ t \in 1..Len(threads)
  /\ threads[t] = "test"
  /\ AfterTest(is_running) = "cycle" => clock + 2 * (InCycle + 1) <= MaxLoopClock
  /\ threads' = [threads EXCEPT ![t] = AfterTest(is_running)]
  /\ UNCHANGED <<curVars, pc, starts, call, result, found, startup, df, now,
                 min_confidence_threshold,
                 auto_execute_suggested_trades, last_suggested_trade_check, fetches,
                 suggested_trade_refresh_interval, forwarded, thread,
                 resultsFile, config_file>>

\* trading_loop: self.run_trading_cycle()
RunCycle(t, market, exch, ticker, io) ==
  /\ t \in 1..Len(threads)
  /\ threads[t] = "cycle"
  /\ \E r \in {run_trading_cycle(Cur, market, DefaultPrecision, exch, ticker,
                                  Dirname(config_file), io)} :
       /\ Set(r.w)
       /\ threads' = [threads EXCEPT ![t] = AfterCycle(r.ret)]
  /\ UNCHANGED <<pc, starts, call, result, found, startup, df, now,
                 min_confidence_threshold,
                 auto_execute_suggested_trades, last_suggested_trade_check, fetches,
                 suggested_trade_refresh_interval, forwarded, thread,
                 resultsFile, config_file>>

\* trading_loop: time.sleep returns
Wake(t) ==
  /\ t \in 1..Len(threads)
  /\ threads[t] \in {"sleep", "cooldown"}
  /\ threads' = [threads EXCEPT ![t] = "test"]
  /\ UNCHANGED <<curVars, pc, starts, call, result, found, startup, df, now,
                 min_confidence_threshold,
                 auto_execute_suggested_trades, last_suggested_trade_check, fetches,
                 suggested_trade_refresh_interval, forwarded, thread,
                 resultsFile, config_file>>

\* generate_signals(df)
GenerateSignals ==
  /\ pc = "signals"
  /\ call' = [op |-> "generate_signals"]
  /\ result' = [signal |-> generate_signals(df)]
  /\ UNCHANGED <<pc, config, mode, initial_balance, risk_percentage, balance,
                 holdings, open_orders, equity_history, trade_history,
                 last_prices, is_running, last_api_key, last_api_secret, client,
                 configFile, configBak, stateFile, backupFile, cwdStateFile,
                 altFiles, cwdIsConfigDir, clock, starts, found, startup, df, ext>>

\* --------------------------------------------------------- specifications
Is(w) ==
  /\ config = w.config
  /\ mode = w.mode
  /\ initial_balance = w.initial_balance
  /\ risk_percentage = w.risk_percentage
  /\ balance = w.balance
  /\ holdings = w.holdings
  /\ open_orders = w.open_orders
  /\ equity_history = w.equity_history
  /\ trade_history = w.trade_history
  /\ last_prices = w.last_prices
  /\ is_running = w.is_running
  /\ last_api_key = w.last_api_key
  /\ last_api_secret = w.last_api_secret
  /\ client = w.client
  /\ configFile = w.configFile
  /\ configBak = w.configBak
  /\ stateFile = w.stateFile
  /\ backupFile = w.backupFile
  /\ cwdStateFile = w.cwdStateFile
  /\ altFiles = w.altFiles
  /\ cwdIsConfigDir = w.cwdIsConfigDir
  /\ clock = w.clock

\* a process about to construct its strategy, in front of the given files
Fresh(cfg, st, bk, cwdst, alts, samedir) ==
  NewInstance(
    [config |-> EmptyConfig, mode |-> "paper", initial_balance |-> 0,
     risk_percentage |-> 0, balance |-> 0, holdings |-> EmptyDict,
     open_orders |-> <<>>, equity_history |-> <<>>, trade_history |-> <<>>,
     last_prices |-> EmptyDict, is_running |-> FALSE, last_api_key |-> "",
     last_api_secret |-> "", client |-> None, configFile |-> cfg,
     configBak |-> NoFile, stateFile |-> st, backupFile |-> bk,
     cwdStateFile |-> cwdst, altFiles |-> alts, cwdIsConfigDir |-> samedir,
     clock |-> 0])

ConfigRecord(k, s, b, r) ==
  [api_key |-> k, api_secret |-> s, mode |-> "paper", initial_balance |-> b,
   risk_percentage |-> r]

\* the config files of the trading specification
TradingConfigs ==
  {ConfigRecord(k[1], k[2], b, r) :
     k \in {<<"k1", "s1">>}, b \in ConfigBalances, r \in RiskValues}

Init ==
  /\ ExtInit
  /\ pc = "load_config"
  /\ starts = 1
  /\ call = [op |-> "__init__"]
  /\ result = None
  /\ found = NoFile
  /\ df = <<>>
  /\ \E cfg \in TradingConfigs :
       Is(Fresh(cfg, NoFile, NoFile, NoFile, <<NoFile, NoFile, NoFile>>, FALSE))
  /\ startup = [configFile |-> configFile, backupFile |-> backupFile]

Next ==
  \/ InitLoadConfig
  \/ InitResetAccount
  \/ InitLoadState
  \/ InitRecover
  \/ Restart
  \/ \E symbol \in Symbols, signal \in Signals, price \in Prices :
       \E precision \in (IF signal > 0 THEN Precisions ELSE {DefaultPrecision}) :
         PaperTrade(symbol, signal, price, precision)
  \/ \E symbol \in Symbols, side \in {"BUY", "SELL"},
        price_arg \in CliPriceArgs, quantity_arg \in CliQuantityArgs :
       ExecuteTrade(symbol, side, price_arg, quantity_arg)
  \/ ResetAccount
  \/ SaveState
  \/ LoadState
  \/ \E ticker \in [Symbols -> TickerOutcomes] : UpdateEquityHistory(ticker)

Spec == Init /\ [][Next]_vars

\* the credential specification: a strategy is constructed, and constructed
\* again, in front of files that do or do not hold a key pair
KeyFile(k, sec) == [api_key |-> k, api_secret |-> sec]

BackupFiles ==
  {NoFile, Bad, KeyFile("", ""), KeyFile("kb", ""), KeyFile("kb", "sb")}

\* a state file in the working directory, of which only api_keys is read
CwdStateFiles ==
  {NoFile, [balance |-> 0],
   [api_keys |-> [key |-> "", secret |-> "ss"]],
   [api_keys |-> [key |-> "ks", secret |-> "ss"]]}

AltFiles ==
  {<<a1, a2, a3>> :
     a1 \in {NoFile, KeyFile("", "sa1"), KeyFile("ka1", "sa1")},
     a2 \in {NoFile, Bad, KeyFile("ka2", "sa2")},
     a3 \in {NoFile, KeyFile("ka3", "sa3")}}

CredConfigs ==
  {NoFile} \cup
  {ConfigRecord(k[1], k[2], 1 * QtyScale, DefaultRisk) :
     k \in {<<"", "">>, <<"k1", "">>, <<"k1", "s1">>}}

\* the snapshot an earlier process left while the config still held a pair
OldSnapshot ==
  [balance |-> 1 * QtyScale, holdings |-> [s \in ConfigSymbols |-> 0],
   open_orders |-> <<>>,
   equity_history |-> <<[timestamp |-> 0, equity |-> 1 * QtyScale]>>,
   trade_history |-> <<>>, last_prices |-> EmptyDict,
   api_keys |-> [key |-> "kold", secret |-> "sold"],
   mode |-> "paper", is_running |-> FALSE]

InitCred ==
  /\ ExtInit
  /\ pc = "load_config"
  /\ starts = 1
  /\ call = [op |-> "__init__"]
  /\ result = None
  /\ df = <<>>
  /\ \E cfg \in CredConfigs, st \in {NoFile, OldSnapshot}, bk \in BackupFiles,
        alts \in AltFiles, samedir \in BOOLEAN :
       \E cwdst \in (IF samedir THEN {NoFile} ELSE CwdStateFiles) :
         /\ found = st
         /\ startup = [configFile |-> cfg, backupFile |-> bk]
         /\ Is(Fresh(cfg, st, bk, cwdst, alts, samedir))

NextCred ==
  \/ InitLoadConfig
  \/ InitResetAccount
  \/ InitLoadState
  \/ InitRecover
  \/ Restart

SpecCred == InitCred /\ [][NextCred]_vars

\* the equity specification: a constructed strategy whose equity history
\* already holds n samples, taken before the first timestamp of the behaviour
EquityLengths == {1, EquityCap - 1, EquityCap}

SampledHistory(n) ==
  [i \in 1..n |-> [timestamp |-> i - n, equity |-> 1 * QtyScale]]

InitEquity ==
  /\ ExtInit
  /\ pc = "ready"
  /\ starts = 1
  /\ call = [op |-> "save_state"]
  /\ result = None
  /\ found = NoFile
  /\ df = <<>>
  /\ \E n \in EquityLengths :
       LET cfg == ConfigRecord("k1", "s1", 1 * QtyScale, DefaultRisk)
           w0 == load_config(Fresh(cfg, NoFile, NoFile, NoFile,
                                   <<NoFile, NoFile, NoFile>>, FALSE))
           w1 == [w0 EXCEPT !.balance = w0.initial_balance,
                            !.holdings = [s \in ConfigSymbols |-> 0],
                            !.equity_history = SampledHistory(n),
                            !.last_api_key = "k1", !.last_api_secret = "s1",
                            !.client = [key |-> "k1", secret |-> "s1"]]
       IN /\ Is(save_state(w1))
          /\ startup = [configFile |-> cfg, backupFile |-> NoFile]

NextEquity ==
  \/ \E ticker \in [Symbols -> TickerOutcomes] : UpdateEquityHistory(ticker)
  \/ ResetAccount
  \/ SaveState
  \/ LoadState

SpecEquity == InitEquity /\ [][NextEquity]_vars

\* the strategy __init__ builds in front of the config file cfg and no other
\* file
Constructed(cfg) ==
  LET w0 == Fresh(cfg, NoFile, NoFile, NoFile, <<NoFile, NoFile, NoFile>>, FALSE)
      w1 == reset_account(load_config(w0))
      w2 == [w1 EXCEPT !.is_running = FALSE,
                       !.last_api_key = w1.config.api_key,
                       !.last_api_secret = w1.config.api_secret]
      r == recover_api_keys_if_needed(load_state(w2))
  IN [r.w EXCEPT !.client = [key |-> r.w.config.api_key,
                             secret |-> r.w.config.api_secret]]

\* the live specification: live_trade on a constructed strategy whose config
\* file names either mode
LiveConfigs ==
  {[ConfigRecord("k1", "s1", 1 * QtyScale, r) EXCEPT !.mode = m] :
     r \in {DefaultRisk, 100}, m \in {"paper", "live"}}

InitLive ==
  /\ ExtInit
  /\ pc = "ready"
  /\ starts = 1
  /\ call = [op |-> "__init__"]
  /\ result = None
  /\ found = NoFile
  /\ df = <<>>
  /\ \E cfg \in LiveConfigs :
       /\ Is(Constructed(cfg))
       /\ startup = [configFile |-> cfg, backupFile |-> NoFile]

NextLive ==
  \E symbol \in ConfigSymbols, signal \in Signals, current_price \in Prices,
     precision \in Precisions, exch \in Exchanges :
    LiveTrade(symbol, signal, current_price, precision, exch)

SpecLive == InitLive /\ [][NextLive]_vars

\* the feed specification: check_and_execute_suggested_trades on a constructed
\* strategy, in either mode, whose config file set the threshold and the
\* refresh interval (load_config reads both), while time passes
FeedThresholds == {DefaultMinConfidence, 60}
FeedIntervals == {DefaultRefreshInterval}

InitFeed ==
  /\ pc = "ready"
  /\ starts = 1
  /\ call = [op |-> "__init__"]
  /\ result = None
  /\ found = NoFile
  /\ df = <<>>
  /\ now = StartTime
  /\ min_confidence_threshold \in FeedThresholds
  /\ auto_execute_suggested_trades = FALSE
  /\ last_suggested_trade_check = 0
  /\ fetches = <<>>
  /\ suggested_trade_refresh_interval \in FeedIntervals
  /\ forwarded = <<>>
  /\ thread = 0
  /\ threads = <<>>
  /\ resultsFile = NoFile
  /\ config_file = "data/trading_config.json"
  /\ \E cfg \in {[ConfigRecord("k1", "s1", 1 * QtyScale, 100) EXCEPT !.mode = m] :
                    m \in {"paper", "live"}} :
       /\ Is(Constructed(cfg))
       /\ startup = [configFile |-> cfg, backupFile |-> NoFile]

NextFeed ==
  \/ \E suggested_trades \in Feeds, ticker \in TickerOutcomes,
        exch \in (IF mode = "live"
                  THEN {e \in Exchanges : e.account # [base |-> 0, asset |-> 0]}
                  ELSE {[account |-> Raised, order |-> Raised]}) :
       CheckSuggested(suggested_trades, ticker, DefaultPrecision, exch)
  \/ \E enabled \in BOOLEAN, confidence \in FeedThresholds, interval \in FeedIntervals :
       AutoExecute(enabled, confidence, interval)
  \/ Tick

SpecFeed == InitFeed /\ [][NextFeed]_vars

\* the persistence specification: a strategy is constructed on either kind of
\* config path, then trades and saves its state while the file system answers
\* in every way
InitSave ==
  /\ pc = "load_config"
  /\ starts = 1
  /\ call = [op |-> "__init__"]
  /\ result = None
  /\ found = NoFile
  /\ df = <<>>
  /\ now = StartTime
  /\ min_confidence_threshold = DefaultMinConfidence
  /\ auto_execute_suggested_trades = FALSE
  /\ last_suggested_trade_check = 0
  /\ fetches = <<>>
  /\ suggested_trade_refresh_interval = DefaultRefreshInterval
  /\ forwarded = <<>>
  /\ thread = 0
  /\ threads = <<>>
  /\ resultsFile = NoFile
  /\ config_file \in ConfigFiles
  /\ \E cfg \in TradingConfigs :
       Is(Fresh(cfg, NoFile, NoFile, NoFile, <<NoFile, NoFile, NoFile>>,
                Dirname(config_file) = ""))
  /\ startup = [configFile |-> configFile, backupFile |-> backupFile]

NextSave ==
  \/ InitLoadConfig
  \/ InitResetAccount
  \/ InitLoadState
  \/ InitRecover
  \/ \E io \in IoOutcomes : SaveStateUnder(io)
  \/ \E symbol \in ConfigSymbols, signal \in Signals, current_price \in {3, 100} :
       PaperTrade(symbol, signal, current_price, DefaultPrecision)

SpecSave == InitSave /\ [][NextSave]_vars

\* the loop specification: start, stop and switch_mode on a constructed
\* strategy, and the steps of the trading_loop threads they create
LoopExchanges ==
  {[account |-> [base |-> 1 * QtyScale, asset |-> 500], order |-> [orderId |-> 7]]}
LoopTickers == [Symbols -> {[price |-> 100]}]

InitLoop ==
  /\ ExtInit
  /\ pc = "ready"
  /\ starts = 1
  /\ call = [op |-> "__init__"]
  /\ result = None
  /\ found = NoFile
  /\ df = <<>>
  /\ Is(Constructed(ConfigRecord("k1", "s1", 1 * QtyScale, 100)))
  /\ startup = [configFile |-> ConfigRecord("k1", "s1", 1 * QtyScale, 100),
                backupFile |-> NoFile]

ThreadStep(t) ==
  \/ LoopTest(t)
  \/ \E market \in Markets, exch \in LoopExchanges, ticker \in LoopTickers,
        io \in LoopIo :
       RunCycle(t, market, exch, ticker, io)
  \/ Wake(t)

NextLoop ==
  \/ \E interval_seconds \in StartIntervals : Start(interval_seconds)
  \/ Stop
  \/ \E io \in LoopIo : StopJoined(io)
  \/ \E new_mode \in NewModes : SwitchMode(new_mode, "ok")
  \/ SwitchJoined
  \/ \E t \in 1..MaxThreads : ThreadStep(t)

SpecLoop == InitLoop /\ [][NextLoop]_vars

\* the loop specification with every thread scheduled again and again
SpecLoopFair ==
  SpecLoop /\ \A t \in 1..MaxThreads : WF_vars(ThreadStep(t))

\* the cycle specification: run_trading_cycle is called again and again on a
\* constructed strategy in paper or live mode
InitCycle ==
  /\ ExtInit
  /\ pc = "ready"
  /\ starts = 1
  /\ call = [op |-> "__init__"]
  /\ result = None
  /\ found = NoFile
  /\ df = <<>>
  /\ \E cfg \in {[ConfigRecord("k1", "s1", 1 * QtyScale, 100) EXCEPT !.mode = m] :
                    m \in {"paper", "live"}} :
       /\ Is(Constructed(cfg))
       /\ startup = [configFile |-> cfg, backupFile |-> NoFile]

NextCycle ==
  \E markets \in [1..Len(CyclePairs) -> CycleMarkets], exch \in LoopExchanges,
     ticker \in LoopTickers, io \in LoopIo :
    RunTradingCycle(markets, exch, ticker, io)

SpecCycle == InitCycle /\ [][NextCycle]_vars

\* the ledger specification: trades, resets and saves from the foreground on
\* a constructed strategy that is started, stopped and switched between modes
\* while its loop threads run cycles
NextLedger ==
  \/ \E symbol \in ConfigSymbols, signal \in {1, 0 - 1} :
       PaperTrade(symbol, signal, 100, DefaultPrecision)
  \/ \E symbol \in ConfigSymbols, exch \in LoopExchanges :
       LiveTrade(symbol, 1, 100, DefaultPrecision, exch)
  \/ ResetAccount
  \/ SaveState
  \/ Start(DefaultRefreshInterval)
  \/ Stop
  \/ StopJoined("ok")
  \/ \E new_mode \in {"paper", "live"} : SwitchMode(new_mode, "ok")
  \/ SwitchJoined
  \/ \E t \in 1..MaxThreads :
       \/ LoopTest(t)
       \/ \E market \in Markets \ {[kind |-> "empty"]}, exch \in LoopExchanges,
             ticker \in LoopTickers :
            RunCycle(t, market, exch, ticker, "ok")
       \/ Wake(t)

SpecLedger == InitLoop /\ [][NextLedger]_vars

\* the switch specification: start, stop and switch_mode on a strategy
\* constructed in front of a config with both credentials, with one or with
\* none
SwitchConfigs ==
  {ConfigRecord(k, sec, 1 * QtyScale, 100) :
     k \in {"", "k1"}, sec \in {"", "s1"}} \ {ConfigRecord("", "s1", 1 * QtyScale, 100)}

InitSwitch ==
  /\ ExtInit
  /\ pc = "ready"
  /\ starts = 1
  /\ call = [op |-> "__init__"]
  /\ result = None
  /\ found = NoFile
  /\ df = <<>>
  /\ \E cfg \in SwitchConfigs :
       /\ Is(Constructed(cfg))
       /\ startup = [configFile |-> cfg, backupFile |-> NoFile]

NextSwitch ==
  \/ Start(DefaultRefreshInterval)
  \/ Stop
  \/ StopJoined("ok")
  \/ \E new_mode \in NewModes : SwitchMode(new_mode, "ok")
  \/ SwitchJoined
  \/ \E t \in 1..MaxThreads :
       \/ LoopTest(t)
       \/ \E market \in Markets, exch \in LoopExchanges, ticker \in LoopTickers :
            RunCycle(t, market, exch, ticker, "ok")
       \/ Wake(t)

SpecSwitch == InitSwitch /\ [][NextSwitch]_vars

\* the client specification: the credentials of a constructed strategy are
\* assigned and save_config is called
NextClient ==
  \/ \E api_key \in {"", "k1", "k2"}, api_secret \in {"", "s1"} :
       SetKeys(api_key, api_secret)
  \/ \E io \in {"ok", "open_raises"} : SaveConfig(io)

SpecClient == InitSwitch /\ [][NextClient]_vars

\* the backup specification: a strategy is constructed, and constructed again,
\* in front of files that do or do not hold a key pair; once constructed its
\* credentials are assigned, its configuration saved and its mode switched
InitBackup ==
  /\ ExtInit
  /\ pc = "load_config"
  /\ starts = 1
  /\ call = [op |-> "__init__"]
  /\ result = None
  /\ df = <<>>
  /\ \E cfg \in CredConfigs, st \in {NoFile, OldSnapshot}, bk \in BackupFiles :
       /\ found = st
       /\ startup = [configFile |-> cfg, backupFile |-> bk]
       /\ Is(Fresh(cfg, st, bk, NoFile, <<NoFile, NoFile, NoFile>>, TRUE))

NextBackup ==
  \/ InitLoadConfig
  \/ InitResetAccount
  \/ InitLoadState
  \/ InitRecover
  \/ Restart
  \/ \E api_key \in {"", "k2"}, api_secret \in {"", "s2"} :
       SetKeys(api_key, api_secret)
  \/ \E io \in {"ok", "open_raises"} : SaveConfig(io)
  \/ \E new_mode \in NewModes : SwitchMode(new_mode, "ok")

SpecBackup == InitBackup /\ [][NextBackup]_vars

\* the rate specification: check_and_execute_suggested_trades is called as
\* time passes on a strategy that is started and stopped, each start setting
\* the refresh interval
RateFeeds ==
  {f \in Feeds : Len(f) = 1 /\ f[1].price > 0 /\ f[1].confidence = 75}
RateMarkets == {[kind |-> "empty"]}

NextRate ==
  \/ \E interval_seconds \in StartIntervals : Start(interval_seconds)
  \/ Stop
  \/ StopJoined("ok")
  \/ \E t \in 1..MaxThreads :
       \/ LoopTest(t)
       \/ \E market \in RateMarkets, exch \in LoopExchanges,
             ticker \in LoopTickers :
            RunCycle(t, market, exch, ticker, "ok")
       \/ Wake(t)
  \/ \E suggested_trades \in RateFeeds, ticker \in LoopTickers,
        exch \in LoopExchanges :
       CheckSuggested(suggested_trades, ticker[suggested_trades[1].symbol],
                      DefaultPrecision, exch)
  \/ Tick

SpecRate == InitLoop /\ [][NextRate]_vars

\* the signal specification: generate_signals applied to a frame of one or
\* two rows
SmaValues == {NaN, 1, 2}
RsiValues == {NaN, 20, 50, 80}
Rows == [SMA_short : SmaValues, SMA_long : SmaValues, RSI : RsiValues]
Frames == {<<r>> : r \in Rows} \cup {<<r1, r2>> : r1 \in Rows, r2 \in Rows}

InitSignal ==
  /\ ExtInit
  /\ pc = "signals"
  /\ starts = 1
  /\ call = [op |-> "fetch_market_data"]
  /\ result = None
  /\ found = NoFile
  /\ df \in Frames
  /\ Is(Fresh(NoFile, NoFile, NoFile, NoFile, <<NoFile, NoFile, NoFile>>, FALSE))
  /\ startup = [configFile |-> NoFile, backupFile |-> NoFile]

NextSignal == GenerateSignals

SpecSignal == InitSignal /\ [][NextSignal]_vars

\* ------------------------------------------------------------------ claims
LastTrade == trade_history[Len(trade_history)]

\* C1: after every paper_trade call, whatever the symbol, signal, price and
\* configured risk_percentage, the balance is not negative.
C1_BalanceNonNegative ==
  call.op = "paper_trade" => balance >= 0

\* C2: in every reachable state every holdings entry is >= 0 (paper_trade,
\* execute-trade BUY/SELL and reset_account in any order).
C2_HoldingsNonNegative ==
  \A s \in DOMAIN holdings : holdings[s] >= 0

\* execute-trade sold part of a position that a paper BUY had opened
C2_Witness ==
  /\ call.op = "execute_trade"
  /\ call.side = "SELL"
  /\ Len(trade_history) >= 2
  /\ LastTrade.side = "SELL"
  /\ call.symbol \in DOMAIN holdings
  /\ holdings[call.symbol] > 0

\* C3: a paper_trade SELL of a symbol with holdings h > 0 at price p sells the
\* whole position: holdings of the symbol become 0, the balance grows by
\* exactly h * p, the returned trade is a SELL of quantity h and value h * p,
\* and no other holdings entry changes.
C3_SellClearsPosition ==
  [][(/\ call'.op = "paper_trade"
      /\ call'.signal < 0
      /\ Get(holdings, call'.symbol, 0) > 0)
     => LET S == call'.symbol
            h == holdings[S]
            p == call'.price
        IN /\ holdings'[S] = 0
           /\ balance' = balance + h * p
           /\ result'.side = "SELL"
           /\ result'.quantity = h
           /\ result'.value = h * p
           /\ DOMAIN holdings' = DOMAIN holdings
           /\ \A o \in (DOMAIN holdings) \ {S} : holdings'[o] = holdings[o]]_vars

\* a SELL of a position that is not a whole number of units went through
C3_Witness ==
  /\ call.op = "paper_trade"
  /\ call.signal < 0
  /\ result # None
  /\ result.side = "SELL"
  /\ result.quantity % QtyScale # 0
  /\ holdings[call.symbol] = 0

\* the largest multiple q of the precision step with q * p <= risk/100 * b
IsFlooredSize(q, b, risk, p, precision) ==
  LET step == Pow10(DefaultPrecision - precision)
  IN /\ q % step = 0
     /\ q * 100 * p <= risk * b
     /\ (q + step) * 100 * p > risk * b

C5_RejectedIsNoOp ==
  [][(/\ call'.op = "paper_trade"
      /\ \/ call'.signal = 0
         \/ call'.signal > 0 /\ balance <= 0
         \/ /\ call'.signal > 0 /\ balance > 0
            /\ \/ call'.price < 0
               \/ /\ call'.price > 0
                  /\ risk_percentage * balance
                       < 100 * call'.price * Pow10(DefaultPrecision - call'.precision)
         \/ call'.signal < 0 /\ Get(holdings, call'.symbol, 0) <= 0)
     => /\ result' = None
        /\ balance' = balance
        /\ holdings' = holdings
        /\ trade_history' = trade_history]_vars

\* a BUY with a positive balance was rejected because its size rounds to 0
C5_Witness ==
  /\ call.op = "paper_trade"
  /\ call.signal > 0
  /\ call.price > 0
  /\ balance > 0
  /\ result = None
  /\ Len(trade_history) > 0

\* C6: constructing a new PaperTradingStrategy on the config path of a
\* persisted snapshot (load_config, reset_account, load_state,
\* recover_api_keys_if_needed) yields the snapshot's balance, holdings,
\* trade_history and equity_history.
C6_RestartRestoresSnapshot ==
  (call.op = "__init__.recover_api_keys_if_needed" /\ found # NoFile)
  => /\ balance = found.balance
     /\ holdings = found.holdings
     /\ trade_history = found.trade_history
     /\ equity_history = found.equity_history

\* C7: save_state() immediately followed by load_state() on the same instance
\* leaves balance, holdings, open_orders, trade_history, equity_history,
\* last_prices and mode as they were before the save.
C7_IdempotentReload ==
  [][(call.op = "save_state" /\ call'.op = "load_state")
     => /\ balance' = balance
        /\ holdings' = holdings
        /\ open_orders' = open_orders
        /\ trade_history' = trade_history
        /\ equity_history' = equity_history
        /\ last_prices' = last_prices
        /\ mode' = mode]_vars

\* a load_state that directly followed a save_state of a portfolio with a
\* trade, a position and a last price
C7_Witness ==
  /\ call.op = "load_state"
  /\ call.after = "save_state"
  /\ trade_history # <<>>
  /\ DOMAIN last_prices # {}
  /\ \E s \in DOMAIN holdings : holdings[s] > 0

\* C8: the equity history never holds more than 10000 entries and stays in
\* chronological order; an update appends the newest sample last and, when
\* the bound would be exceeded, drops the oldest entries only.
C8_EquityHistoryBound ==
  /\ [](/\ Len(equity_history) <= EquityCap
        /\ \A i \in 1..(Len(equity_history) - 1) :
             equity_history[i].timestamp < equity_history[i + 1].timestamp)
  /\ [][call'.op = "update_equity_history"
        => LET appended == Len(equity_history) + 1
               kept == Len(equity_history')
               dropped == appended - kept
           IN /\ kept = (IF appended > EquityCap THEN EquityCap ELSE appended)
              /\ equity_history'[kept].timestamp = clock'
              /\ clock' > clock
              /\ \A i \in 1..(kept - 1) :
                   equity_history'[i] = equity_history[i + dropped]]_vars

\* updates of a full history dropped its oldest samples
C8_Witness ==
  /\ call.op = "update_equity_history"
  /\ clock >= 2
  /\ Len(equity_history) = EquityCap
  /\ equity_history[1].timestamp = clock - EquityCap + 1
  /\ equity_history[EquityCap].timestamp = clock

\* the order of the credential sources as the claim gives it
C9_Order == <<"backup_file", "state_file", "alt1", "alt2", "alt3">>

\* source i holds a non-empty key and a non-empty secret
C9_Qualifies(i) ==
  LET f == SourceFile(Cur, C9_Order[i])
  IN /\ f # NoFile
     /\ f # Bad
     /\ SourceKeys(f, C9_Order[i]).key # ""
     /\ SourceKeys(f, C9_Order[i]).secret # ""

\* the first qualifying source, 0 when there is none
C9_First ==
  IF \E i \in 1..5 : C9_Qualifies(i)
  THEN CHOOSE i \in 1..5 : C9_Qualifies(i) /\ \A j \in 1..(i - 1) : ~C9_Qualifies(j)
  ELSE 0

\* C9: with empty config credentials recovery consults the dedicated backup,
\* then the state snapshot, then the alternate paths in list order; the first
\* source with a non-empty key and secret supplies the pair written into the
\* config and saved, no later source is read, and with no such source the
\* credentials stay empty and the function returns False.
C9_RecoveryOrder ==
  [][(/\ pc = "recover" /\ pc' = "ready"
      /\ config.api_key = "" /\ config.api_secret = "")
     => LET last == IF C9_First = 0 THEN 5 ELSE C9_First
            expected == SelectSeq(SubSeq(C9_Order, 1, last),
                                  LAMBDA src : SourceFile(Cur, src) # NoFile)
        IN /\ result'.reads = expected
           /\ IF C9_First = 0
              THEN /\ result'.ret = FALSE
                   /\ config'.api_key = "" /\ config'.api_secret = ""
              ELSE LET src == C9_Order[C9_First]
                       k == SourceKeys(SourceFile(Cur, src), src)
                   IN /\ result'.ret = TRUE
                      /\ config'.api_key = k.key
                      /\ config'.api_secret = k.secret
                      /\ configFile' # NoFile
                      /\ configFile'.api_key = k.key
                      /\ configFile'.api_secret = k.secret]_vars

\* the pair came from the second alternate path after the backup file and the
\* first alternate path were read and did not hold a complete pair
C9_Witness ==
  /\ call.op = "__init__.recover_api_keys_if_needed"
  /\ result.ret = TRUE
  /\ result.reads = <<"backup_file", "alt1", "alt2">>
  /\ config.api_key = "ka2"
  /\ config.api_secret = "sa2"
  /\ configFile.api_key = "ka2"

\* C10: for a frame of one row generate_signals returns the RSI rule's result
\* (1 below rsi_oversold, -1 above rsi_overbought, else 0) whatever SMA_short
\* and SMA_long are.
C10_ColdStart ==
  (call.op = "generate_signals" /\ Len(df) = 1)
  => result.signal = (IF df[1].RSI # NaN /\ df[1].RSI < RsiOversold THEN 1
                      ELSE IF df[1].RSI # NaN /\ df[1].RSI > RsiOverbought THEN 0 - 1
                      ELSE 0)

\* one row with the short average above the long one and an overbought RSI
C10_Witness ==
  /\ call.op = "generate_signals"
  /\ Len(df) = 1
  /\ df[1].SMA_short = 2
  /\ df[1].SMA_long = 1
  /\ df[1].RSI = 80
  /\ result.signal = 0 - 1

\* both moving averages of a bar exist
C11_HasAverages(row) == row.SMA_short # NaN /\ row.SMA_long # NaN

\* the short average goes from not above the long one to above it
C11_CrossUp ==
  /\ C11_HasAverages(df[1]) /\ C11_HasAverages(df[2])
  /\ ~(df[1].SMA_short > df[1].SMA_long)
  /\ df[2].SMA_short > df[2].SMA_long

\* the short average goes from not below the long one to below it
C11_CrossDown ==
  /\ C11_HasAverages(df[1]) /\ C11_HasAverages(df[2])
  /\ ~(df[1].SMA_short < df[1].SMA_long)
  /\ df[2].SMA_short < df[2].SMA_long

C11_RsiRule ==
  IF df[2].RSI # NaN /\ df[2].RSI < RsiOversold THEN 1
  ELSE IF df[2].RSI # NaN /\ df[2].RSI > RsiOverbought THEN 0 - 1
  ELSE 0

\* C11: for two consecutive bars generate_signals returns 1 when the short
\* average crosses from not above to above the long average and -1 when it
\* crosses from not below to below, whatever the RSI is; without a crossover it
\* returns the RSI rule's result; the result is always one of 1, -1, 0 and is
\* determined by the frame alone.
C11_CrossoverPriority ==
  (call.op = "generate_signals")
  => /\ result.signal \in {1, 0 - 1, 0}
     /\ Len(df) = 2
        => result.signal = (IF C11_CrossUp THEN 1
                            ELSE IF C11_CrossDown THEN 0 - 1
                            ELSE C11_RsiRule)

\* the short average crosses above the long one from equality while the RSI
\* is overbought: the result is BUY
C11_Witness ==
  /\ call.op = "generate_signals"
  /\ Len(df) = 2
  /\ df[1].SMA_short = 1 /\ df[1].SMA_long = 1
  /\ df[2].SMA_short = 2 /\ df[2].SMA_long = 1
  /\ df[2].RSI = 80
  /\ result.signal = 1

\* C16: when get_account or create_order raises, live_trade returns None and
\* balance, holdings and trade_history are what they were before the call;
\* the same holds when the mode is not live or the signal is 0.
C16_LiveFailureLeavesState ==
  [][(call'.op = "live_trade"
      /\ \/ call'.exch.account = Raised
         \/ call'.exch.order = Raised
         \/ mode # "live"
         \/ call'.signal = 0)
     => /\ result' = None
        /\ balance' = balance
        /\ holdings' = holdings
        /\ trade_history' = trade_history]_vars

\* a live BUY whose account query answered a positive balance and whose order
\* was refused, after an earlier live trade was recorded
C16_Witness ==
  /\ call.op = "live_trade"
  /\ mode = "live"
  /\ call.signal = 1
  /\ call.price = 100
  /\ call.exch.account # Raised
  /\ call.exch.account.base > 0
  /\ call.exch.order = Raised
  /\ result = None
  /\ Len(trade_history) = 1

\* a fetched suggestion that reaches the threshold and has a price to trade at
C12_Eligible(t) ==
  /\ t.confidence >= min_confidence_threshold
  /\ (t.price > 0 \/ call.ticker # Raised)

C12_Expected == SelectSeq(call.suggested_trades, C12_Eligible)

\* C12: a check that fetched the feed calls paper_trade or live_trade for
\* exactly the suggestions whose confidence is at least
\* min_confidence_threshold and that have a usable price, in the feed's order
\* and with is_suggested = True; a suggestion below the threshold causes no
\* call, and a feed made only of such suggestions leaves balance, holdings and
\* trade_history unchanged.
C12_ConfidenceGating ==
  /\ []((call.op = "check_and_execute_suggested_trades" /\ result.fetched)
        => /\ Len(forwarded) = Len(C12_Expected)
           /\ \A i \in 1..Len(forwarded) :
                /\ forwarded[i].symbol = C12_Expected[i].symbol
                /\ forwarded[i].confidence = C12_Expected[i].confidence
                /\ forwarded[i].confidence >= min_confidence_threshold
                /\ forwarded[i].is_suggested = TRUE
                /\ forwarded[i].signal =
                     (IF C12_Expected[i].signal = "BUY" THEN 1 ELSE 0 - 1)
                /\ forwarded[i].target =
                     (IF mode = "paper" THEN "paper_trade" ELSE "live_trade"))
  /\ [][(call'.op = "check_and_execute_suggested_trades"
         /\ \A i \in 1..Len(call'.suggested_trades) :
              call'.suggested_trades[i].confidence < min_confidence_threshold)
        => /\ balance' = balance
           /\ holdings' = holdings
           /\ trade_history' = trade_history]_vars

\* threshold 0.75, a feed of a priced BUY at 0.60 followed by a priced BUY at
\* 0.75 in paper mode: only the second was executed
C12_Witness ==
  /\ call.op = "check_and_execute_suggested_trades"
  /\ result.fetched
  /\ mode = "paper"
  /\ min_confidence_threshold = DefaultMinConfidence
  /\ Len(call.suggested_trades) = 2
  /\ call.suggested_trades[1].confidence = 60
  /\ call.suggested_trades[2].confidence = 75
  /\ call.suggested_trades[2].signal = "BUY"
  /\ Len(forwarded) = 1
  /\ forwarded[1].confidence = 75
  /\ Len(trade_history) = 1

\* C17: save_state never raises, whatever the config path (a bare file name
\* included) and however creating the directory or writing the file fails,
\* and it leaves the portfolio in memory unchanged.
C17_SaveStateNeverRaises ==
  /\ []((call.op = "save_state" \/ call.op = "__init__.reset_account")
        => result # Raised)
  /\ [][call'.op = "save_state"
        => /\ balance' = balance
           /\ holdings' = holdings
           /\ open_orders' = open_orders
           /\ equity_history' = equity_history
           /\ trade_history' = trade_history
           /\ last_prices' = last_prices]_vars

\* C18: recover_api_keys_if_needed reads a backup source only when api_key and
\* api_secret of the configuration are both empty; with both set, or only one
\* of them set, it reads no source and leaves both fields as they are.
C18_RecoveryPrecondition ==
  [][(/\ pc = "recover" /\ pc' = "ready"
      /\ ~(config.api_key = "" /\ config.api_secret = ""))
     => /\ result'.reads = <<>>
        /\ config'.api_key = config.api_key
        /\ config'.api_secret = config.api_secret]_vars

\* the process started in front of a snapshot that embeds a complete pair, a
\* config without credentials and no dedicated backup file
C19_LostConfig ==
  /\ found # NoFile
  /\ found.api_keys.key # "" /\ found.api_keys.secret # ""
  /\ \/ startup.configFile = NoFile
     \/ /\ startup.configFile # NoFile
        /\ startup.configFile.api_key = ""
        /\ startup.configFile.api_secret = ""
  /\ startup.backupFile = NoFile

\* C19: when the process starts in front of a snapshot with a non-empty key
\* and secret, a config with empty credentials and no dedicated backup file,
\* then once the strategy is constructed its configuration holds the
\* snapshot's key and secret and the config file holds them too.
C19_SnapshotCredentialsSurvive ==
  (/\ pc = "ready"
   /\ call.op = "__init__.recover_api_keys_if_needed"
   /\ C19_LostConfig)
  => /\ config.api_key = found.api_keys.key
     /\ config.api_secret = found.api_keys.secret
     /\ configFile # NoFile
     /\ configFile.api_key = found.api_keys.key
     /\ configFile.api_secret = found.api_keys.secret

\* ---- C13
\* a trading_loop thread that is alive and able to run cycles: it is inside a
\* cycle, or it has not ended and the flag its while tests is set
C13_AbleToRun(t) ==
  /\ threads[t] # "done"
  /\ threads[t] = "cycle" \/ is_running

\* C13: in every state reached by start(), stop() and switch_mode() calls,
\* a stop() whose join timed out included, at most one trading_loop thread is
\* alive and able to run cycles
C13_AtMostOneLoop ==
  Cardinality({t \in 1..Len(threads) : C13_AbleToRun(t)}) <= 1

\* ---- C14
\* stop() has returned normally with the disk answering
C14_StopReturns ==
  /\ pc = "stop_join"
  /\ pc' = "ready"
  /\ call'.io = "ok"

\* C14: stop() on a running instance clears is_running; when it returns it has
\* written a snapshot with is_running false and a results file of the final
\* state; stop() on a stopped instance writes neither; a loop thread enters a
\* cycle only with is_running true; and once is_running is false every loop
\* thread ends unless a start follows
C14_StopTerminatesLoop ==
  /\ [][Stop => ~is_running']_vars
  /\ [][C14_StopReturns =>
          /\ stateFile' = Snapshot(Cur')
          /\ stateFile'.is_running = FALSE
          /\ resultsFile' = export_results(Cur')]_vars
  /\ [][Stop /\ ~is_running => UNCHANGED <<stateFile, resultsFile, threads>>]_vars
  /\ [][\A t \in 1..Len(threads) :
          threads[t] # "cycle" /\ threads'[t] = "cycle" => is_running]_vars
  /\ \A t \in 1..MaxThreads :
       (t <= Len(threads) /\ ~is_running) ~>
         (is_running \/ (t <= Len(threads) /\ threads[t] = "done"))

\* stop() returned on an instance whose loop had run a cycle: the loop has
\* ended, the snapshot says stopped and the results file holds the loop's trade
C14_Witness ==
  /\ pc = "ready"
  /\ call.op = "stop.join"
  /\ call.io = "ok"
  /\ ~is_running
  /\ \A t \in 1..Len(threads) : threads[t] = "done"
  /\ stateFile # NoFile /\ stateFile # Bad /\ stateFile.is_running = FALSE
  /\ resultsFile # NoFile
  /\ Len(resultsFile.trade_history) > 0

\* ---- C15
\* the next test of thread t cannot pass within the timestamps of the model
C15_OutOfClock == clock + 2 * (InCycle + 1) > MaxLoopClock

\* C15: a cycle whose save_state raises sends its thread to the cooldown sleep,
\* a thread leaves a cycle only into one of the two sleeps, it ends only when
\* is_running is false, and from the cooldown it enters another cycle unless
\* trading is stopped
C15_LoopSurvivesBadCycle ==
  /\ [][\A t \in 1..Len(threads) :
          \A market \in Markets, exch \in LoopExchanges, ticker \in LoopTickers :
            RunCycle(t, market, exch, ticker, "makedirs_raises")
              => threads'[t] = "cooldown"]_vars
  /\ [][\A t \in 1..Len(threads) :
          /\ threads[t] = "cycle" /\ threads'[t] # "cycle"
               => threads'[t] \in {"sleep", "cooldown"}
          /\ threads[t] # "done" /\ threads'[t] = "done" => ~is_running]_vars
  /\ \A t \in 1..MaxThreads :
       (t <= Len(threads) /\ threads[t] = "cooldown") ~>
         \/ ~is_running
         \/ t <= Len(threads) /\ threads[t] = "cycle"
         \/ C15_OutOfClock

\* the only loop thread is inside a cycle after a cycle whose save_state
\* raised: the equity point of that cycle is in memory and not in the snapshot
C15_Witness ==
  /\ is_running
  /\ threads = <<"cycle">>
  /\ stateFile # NoFile /\ stateFile # Bad
  /\ Len(equity_history) > Len(stateFile.equity_history)

\* ---- C20
\* a call is made sooner than the refresh interval after the last fetch
C20_Sooner ==
  /\ Len(fetches) > 0
  /\ now - fetches[Len(fetches)].at < suggested_trade_refresh_interval

\* C20: two consecutive fetches of the feed are at least the refresh interval
\* of the second call apart, and a call made sooner fetches nothing, executes
\* no trade and leaves last_suggested_trade_check alone
C20_RateLimit ==
  /\ [](\A i \in 1..(Len(fetches) - 1) :
          fetches[i + 1].at - fetches[i].at >= fetches[i + 1].interval)
  /\ [][\A suggested_trades \in RateFeeds, ticker \in TickerOutcomes,
           exch \in LoopExchanges :
          CheckSuggested(suggested_trades, ticker, DefaultPrecision, exch)
            /\ C20_Sooner
          => /\ result' = [fetched |-> FALSE]
             /\ UNCHANGED <<fetches, last_suggested_trade_check, forwarded,
                            balance, holdings, trade_history, open_orders>>]_vars

\* the feed was fetched twice under two different refresh intervals, and a
\* third call came too soon
C20_Witness ==
  /\ Len(fetches) >= 2
  /\ fetches[2].interval # fetches[1].interval
  /\ call.op = "check_and_execute_suggested_trades"
  /\ result = [fetched |-> FALSE]

\* ---- C21
\* C21: every cycle the trading loop completes has run
\* check_and_execute_suggested_trades, so when the refresh interval has
\* passed the cycle has fetched the feed
C21_LoopRunsIngestor ==
  [][\A t \in 1..Len(threads) :
       (/\ threads[t] = "cycle"
        /\ threads'[t] = "sleep"
        /\ ~TooSoon(now, last_suggested_trade_check,
                    suggested_trade_refresh_interval))
       => Len(fetches') = Len(fetches) + 1]_vars

\* ---- C22
\* stop() was the last call of the foreground and it has returned
C22_StopReturned ==
  /\ pc = "ready"
  /\ call.op = "stop.join"
  /\ result = None

\* C22: once stop() has returned, no step of a trading_loop thread changes
\* balance, holdings, trade_history, equity_history or last_prices, and none
\* writes the state file
C22_SingleWriterAfterStop ==
  [][\A t \in 1..Len(threads) :
       (C22_StopReturned /\ threads'[t] # threads[t])
       => UNCHANGED <<balance, holdings, trade_history, equity_history,
                      last_prices, stateFile>>]_vars

\* ---- C23
\* the pair whose fetch gave market fails in state w: the frame is empty, or
\* paper_trade divides by a zero close in its BUY branch
C23_Fails(w, market) ==
  \/ market = [kind |-> "empty"]
  \/ /\ market # [kind |-> "empty"]
     /\ w.mode = "paper"
     /\ market.close = 0
     /\ market.frame[1].RSI < RsiOversold
     /\ w.balance > 0

\* balance, holdings and trade_history of a state
C23_Ledger(w) ==
  [balance |-> w.balance, holdings |-> w.holdings,
   trade_history |-> w.trade_history]

\* C23: in one run_trading_cycle a pair whose fetch fails or whose body raises
\* changes neither balance nor holdings nor trade_history, the other pair is
\* processed as if it were alone, and the cycle appends one equity point and
\* then saves the state that holds it
C23_FailureIsolation ==
  [][\A markets \in [1..Len(CyclePairs) -> CycleMarkets],
       exch \in LoopExchanges, ticker \in LoopTickers, io \in LoopIo :
       RunTradingCycle(markets, exch, ticker, io)
       => /\ (C23_Fails(Cur, markets[1]) /\ C23_Fails(Cur, markets[2]))
               => C23_Ledger(Cur') = C23_Ledger(Cur)
          /\ C23_Fails(Cur, markets[1])
               => C23_Ledger(Cur') =
                    C23_Ledger(cycle_pair(Cur, CyclePairs[2].symbol, markets[2],
                                          DefaultPrecision, exch).w)
          /\ (~C23_Fails(Cur, markets[1])
              /\ markets[2] = [kind |-> "empty"])
               => C23_Ledger(Cur') =
                    C23_Ledger(cycle_pair(Cur, CyclePairs[1].symbol, markets[1],
                                          DefaultPrecision, exch).w)
          /\ Len(equity_history') = Len(equity_history) + 1
          /\ io = "ok" => stateFile' = Snapshot(Cur')]_vars

\* a cycle in paper mode whose first pair raised on a zero close and whose
\* second pair bought
C23_Witness ==
  /\ call.op = "run_trading_cycle"
  /\ mode = "paper"
  /\ call.markets[1] # [kind |-> "empty"]
  /\ call.markets[1].close = 0
  /\ call.markets[1].frame[1].RSI < RsiOversold
  /\ Len(trade_history) = 1
  /\ trade_history[1].side = "BUY"
  /\ Len(equity_history) = 2
  /\ stateFile # NoFile /\ stateFile # Bad
  /\ Len(stateFile.trade_history) = 1

\* ---- C24
\* holdings.get(symbol, 0)
C24_Held(h, symbol) == IF symbol \in DOMAIN h THEN h[symbol] ELSE 0

\* C24: the operation that appends an entry to trade_history has changed
\* balance by the entry's value and the symbol's holdings by the entry's
\* quantity, down and up for a BUY, up and down for a SELL, and the entry
\* carries the resulting balance and holdings
C24_LedgerMatchesDeltas ==
  [][Len(trade_history') = Len(trade_history) + 1
     => LET e == trade_history'[Len(trade_history')]
            sign == IF e.side = "BUY" THEN 1 ELSE 0 - 1
        IN /\ "value" \in DOMAIN e
           /\ balance' = balance - sign * e.value
           /\ C24_Held(holdings', e.symbol)
                = C24_Held(holdings, e.symbol) + sign * e.quantity
           /\ "balance_after" \in DOMAIN e
           /\ e.balance_after = balance'
           /\ "holdings_after" \in DOMAIN e
           /\ e.holdings_after = C24_Held(holdings', e.symbol)]_vars

\* ---- C25
\* C25: on a constructed instance every step of paper_trade, live_trade,
\* run_trading_cycle, reset_account, switch_mode, start, stop and save_state
\* leaves the previous trade_history as a prefix of the new one
C25_AppendOnly ==
  [][/\ Len(trade_history') >= Len(trade_history)
     /\ SubSeq(trade_history', 1, Len(trade_history)) = trade_history]_vars

\* reset_account has run on an instance that had traded, and the trade is
\* still in the ledger
C25_Witness ==
  /\ call.op = "reset_account"
  /\ Len(trade_history) >= 1
  /\ balance = initial_balance
  /\ \A s \in DOMAIN holdings : holdings[s] = 0

\* ---- C26
\* what a refused switch_mode has to leave alone
C26_Kept ==
  UNCHANGED <<mode, config, is_running, configFile, configBak, stateFile,
              backupFile, resultsFile, threads, thread, pc>>

\* C26: switch_mode('live') with an empty api_key or api_secret returns False
\* and leaves the mode, the configuration, the running flag, the files and the
\* loop threads as they were; switch_mode with another value than 'paper' or
\* 'live' leaves them too
C26_LiveNeedsCredentials ==
  [][/\ (SwitchMode("live", "ok")
         /\ (config.api_key = "" \/ config.api_secret = ""))
        => (result' = [ret |-> FALSE] /\ C26_Kept)
     /\ SwitchMode("margin", "ok") => C26_Kept]_vars

\* switch_mode('live') was refused on a running strategy that has a key and
\* no secret, while its loop thread was inside a cycle
C26_Witness ==
  /\ call.op = "switch_mode"
  /\ call.new_mode = "live"
  /\ result = [ret |-> FALSE]
  /\ config.api_key # "" /\ config.api_secret = ""
  /\ is_running
  /\ mode = "paper"
  /\ threads = <<"cycle">>

\* ---- C27
\* C27: after save_config(), when api_key or api_secret of the configuration
\* differed from the pair recorded at the previous refresh, the client has
\* been rebuilt from the current pair and the recorded pair is the current
\* pair; when neither differed, the client is the one it was
C27_ClientFollowsCredentials ==
  [][\A io \in {"ok", "open_raises"} :
       SaveConfig(io)
       => IF config.api_key # last_api_key \/ config.api_secret # last_api_secret
          THEN /\ client' = [key |-> config.api_key, secret |-> config.api_secret]
               /\ last_api_key' = config.api_key
               /\ last_api_secret' = config.api_secret
          ELSE client' = client]_vars

\* C28: while auto_execute_suggested_trades is false, a call of
\* check_and_execute_suggested_trades executes no suggested trade: it leaves
\* balance, holdings and trade_history as they were
C28_FlagGatesIngestion ==
  [][(/\ call'.op = "check_and_execute_suggested_trades"
      /\ call' # call \/ result' # result \/ fetches' # fetches
      /\ ~auto_execute_suggested_trades)
     => /\ balance' = balance
        /\ holdings' = holdings
        /\ trade_history' = trade_history]_vars

\* a paper_trade call that returned a trade record
C29_Executed(ret) == ret # None /\ ret # Raised

C30_HoldsPair(file) ==
  /\ file # NoFile
  /\ file # Bad
  /\ Truthy(file.api_key)
  /\ Truthy(file.api_secret)

\* C30: once the dedicated backup file holds a non-empty key/secret pair it
\* holds one in every later state, and whenever the file is rewritten it holds
\* the configuration's pair of that moment, both fields non-empty
C30_BackupNeverBlanked ==
  [][/\ C30_HoldsPair(backupFile) => C30_HoldsPair(backupFile')
     /\ backupFile' # backupFile
        => /\ C30_HoldsPair(backupFile')
           /\ backupFile'.api_key = config'.api_key
           /\ backupFile'.api_secret = config'.api_secret]_vars

\* the backup file held one pair when the process started and holds another
\* now, written by a save_config() after the credentials were replaced
C30_Witness ==
  /\ call.op = "save_config"
  /\ C30_HoldsPair(startup.backupFile)
  /\ C30_HoldsPair(backupFile)
  /\ backupFile # startup.backupFile
  /\ backupFile.api_key = "k2"

====
